---- MODULE Spec2Model ----
(***************************************************************************)
(* Homer engine (HomerEngine, lib/engine.js): agent lifecycle, the         *)
(* verification loop, rerouting and auto-spawn, as a state machine.        *)
(*                                                                         *)
(* One action per handler of the engine: the PTY data and exit callbacks,  *)
(* the three kinds of setTimeout callback (verification, reroute respawn,  *)
(* auto-spawn) and the two commands of the control surface (spawn, kill).  *)
(* The PRD holds stories of at most two acceptance criteria, so            *)
(* decomposeStory returns null and subtaskMap stays empty; no issue        *)
(* tracker is configured (this.issues = []); an active tool is selected    *)
(* and spawning the child succeeds.                                        *)
(***************************************************************************)
EXTENDS Integers, Sequences, FiniteSets, TLC

\* ---------------------------------------------------------------- bounds
\* The specifications run the same engine under different bounds, which
\* limits holds for the run. A handler that would pass a bound is disabled.
\* agentCounter never passes this value (Spec, VerifyFailSpec).
MaxAgentCounter == 4
\* agentCounter never passes this value (VerifySpec).
DeepAgentCounter == 2
\* Agents that start a verification in one run of the engine.
MaxVerifiers == 1
\* Kill commands and child exits in one run of the engine, together.
MaxFaults == 1
\* opts.maxAgents is drawn from 1..MaxAgentsOpt.
MaxAgentsOpt == 2
\* Characters of one chunk of PTY output; an escape sequence is a chunk that
\* stripAnsi removes.
ChunkLen == 250
\* Chunks agent.outputBuffer grows to (ScanSpec).
MaxScanChunks == 4
\* Chunks one data event delivers (ScanSpec).
MaxDataChunks == 2
\* Events and PTY writes recorded in one run (EventSpec).
MaxEvents == 14
\* agents created in a run that writes the memory store
MaxLearnAgents == 3
\* calls of the memory module in a run of the store alone
MaxMemOps == 5
\* calls of the memory module in a run that reads the register
MaxRegisterOps == 4

MaxRelationOps == 4

MaxClosedOps == 3

\* the clock of a run of _waitForReady stops here, in ms
MaxReadyClock == 8400

\* calls that write task_runs in a run
MaxRunOps == 3

MaxIssueNumber == 3

MaxDeps == 2

MaxStories == 3

MaxPriority == 2

MaxSaves == 2
\* largest attempt number passed to recordVerification and recordSuccess
MaxAttemptArg == 2
\* agents created in a run on a PRD with a decomposed story
MaxSubtaskAgents == 3
MaxDoneAgents == 11
MaxSessionAgents == 2
MaxResumeCounter == 4
MaxResumeEvents == 16
MaxChunkKB == 400
MaxClock == 16
MaxClients == 2
MaxRelayEvents == 8
MaxSpawnEvents == 10

\* ------------------------------------------------------ program constants
MAX_VERIFY == 5
MAX_REROUTES == 2
TAIL_LEN == 500
START_DELAY == 100
VERIFY_DELAY == 100
DONE_SPAWN_DELAY == 500
BLOCKED_SPAWN_DELAY == 500
EXIT_SPAWN_DELAY == 1000
REROUTE_DELAY == 1500
DEFAULT_PRIORITY == 99
\* doneCount % 10 === 0
CONSOLIDATE_EVERY == 10
BUFFER_TRIM_KB == 300
BUFFER_KEEP_KB == 128
KB == 1024
\* outputSnippet: stripAnsi(agent.outputBuffer).slice(-300)
SNIPPET_LEN == 300
\* setTimeout(..., 50) of _emitState, in ms
STATE_DEBOUNCE == 50
\* One tick of the model's clock, in ms
TICK == 10
\* _waitForReady: setTimeout(..., 8000), setTimeout(..., 1500), setInterval(..., 200)
READY_MAX_WAIT == 8000
READY_MIN_WAIT == 1500
READY_POLL == 200

VARIABLES
  opts,             \* [auto, maxAgents]: this.opts, fixed for the run
  agents,           \* this.agents: sequence of agent records
  agentCounter,     \* this.agentCounter
  taskRetryCounts,  \* this.taskRetryCounts: task key -> reroutes so far
  prd,              \* this.prd.userStories: sequence of story records
  timers,           \* pending setTimeout callbacks, by set time
  faults,           \* kill commands and child exits so far
  limits,           \* the bounds of this run
  scanBuffer,       \* ScanSpec: agent.outputBuffer of agent 1, in chunks
  scanSignal,       \* ScanSpec: what the last data event's scan acted upon
  events,           \* EventSpec: what the engine has emitted and written, in order
  memory,           \* MemorySpec, RegisterSpec: the tables of memory.db and
                    \* the module's _lastInjectedRuleIds
  lastOp,           \* MemorySpec, RegisterSpec: the last call made and what it returned
  memOps,           \* MemorySpec, RegisterSpec: calls made so far
  subtaskMap,       \* this.subtaskMap: entries [parentId, subtasks, completed],
                    \* in insertion order
  consolidation,    \* ConsolidateSpec: [done, calls]: how often _finalizeDone has
                    \* run, and at which of these runs it called consolidate
  session,          \* ResumeSpec: the session file: [found, agents, agentCounter]
  lastSpawn,        \* [threw, ret]: whether _spawnPTY threw in the last
                    \* _makeAgent call, and the id of the agent it returned
                    \* (0: null)
  clients,          \* SubscribeSpec: the server's websockets, in the order they
                    \* were opened: [open, inbox], inbox the types of the
                    \* messages sent to it
  stateClock        \* DebounceSpec: [now, timer, pending, answered, lastEmit,
                    \* prevEmit]: the time in ticks, when this._stateTimer is
                    \* due, the times of the _emitState calls made since the
                    \* last state event and of those made before it, and the
                    \* times of the last two state events
VARIABLES
  dag               \* TopoSpec: one call of topoLayers: [issues, inDegree,
                    \* visited, layers, pc]
VARIABLES
  prdFile,          \* FileSpec: prd.json on disk: [text, rest, open, seen, whole]:
                    \* what the file holds, what writeFileSync has still to
                    \* write, whether it holds the file open, what a reader
                    \* last read, and the texts written in whole so far
  ready             \* ReadySpec: one call of _waitForReady

vars ==
  <<opts, agents, agentCounter, taskRetryCounts, prd, timers, faults, limits,
    scanBuffer, scanSignal, events, memory, lastOp, memOps, subtaskMap,
    consolidation, session, lastSpawn, clients, stateClock, dag, prdFile, ready>>

memVars == <<memory, lastOp, memOps>>

Range(seq) == {seq[k] : k \in DOMAIN seq}

\* The functions of lib/ that the engine's runs do not call: not called yet.
NoCall == [pc |-> "idle"]

\* prd.json is looked at only where its readers are modelled.
NoFile == [text |-> <<>>, rest |-> <<>>, open |-> FALSE, seen |-> <<>>, whole |-> {}]

LibraryStart == dag = NoCall /\ prdFile = NoFile /\ ready = NoCall

LibraryIdle == UNCHANGED <<dag, prdFile, ready>>

\* What the environment may do in a run: how many agents are created, how
\* many of them start a verification, how many kills and exits happen, and
\* how runVerification can turn out, how many events are recorded, and what
\* extractFilePaths can find in an agent's output.
WideLimits ==
  [agents |-> MaxAgentCounter, verifiers |-> MaxVerifiers,
   faults |-> MaxFaults, outcomes |-> BOOLEAN, log |-> 0, files |-> {<<>>},
   tally |-> FALSE, sizes |-> {0}, spawns |-> {TRUE}]

DeepLimits ==
  [agents |-> DeepAgentCounter, verifiers |-> MaxVerifiers,
   faults |-> MaxFaults, outcomes |-> BOOLEAN, log |-> 0, files |-> {<<>>},
   tally |-> FALSE, sizes |-> {0}, spawns |-> {TRUE}]

\* The engine's events and PTY writes are recorded, and the length of the
\* record is what ends a run.
EventLimits ==
  [agents |-> MaxEvents, verifiers |-> MaxEvents,
   faults |-> MaxEvents, outcomes |-> BOOLEAN, log |-> MaxEvents, files |-> {<<>>},
   tally |-> FALSE, sizes |-> {0}, spawns |-> {TRUE}]

\* Every verification fails, and every agent may verify.
FailLimits ==
  [agents |-> MaxAgentCounter, verifiers |-> MaxAgentCounter,
   faults |-> 0, outcomes |-> {FALSE}, log |-> 0, files |-> {<<>>},
   tally |-> FALSE, sizes |-> {0}, spawns |-> {TRUE}]

\* The memory store is open, and an agent's output may name a file.
LearnLimits ==
  [agents |-> MaxLearnAgents, verifiers |-> MaxVerifiers,
   faults |-> MaxFaults, outcomes |-> BOOLEAN, log |-> 0,
   files |-> {<<>>, <<"lib/auth.js">>}, tally |-> FALSE, sizes |-> {0}, spawns |-> {TRUE}]

\* Every agent may verify, on a PRD whose first story is decomposed.
SubtaskLimits ==
  [agents |-> MaxSubtaskAgents, verifiers |-> MaxSubtaskAgents,
   faults |-> MaxFaults, outcomes |-> BOOLEAN, log |-> 0, files |-> {<<>>},
   tally |-> FALSE, sizes |-> {0}, spawns |-> {TRUE}]

\* Every verification passes, and the runs of _finalizeDone are tallied.
ConsolidateLimits ==
  [agents |-> MaxDoneAgents, verifiers |-> MaxDoneAgents,
   faults |-> MaxFaults, outcomes |-> {TRUE}, log |-> 0, files |-> {<<>>},
   tally |-> TRUE, sizes |-> {0}, spawns |-> {TRUE}]

\* The length of an agent's output buffer is followed: a data event brings
\* 64 KiB, 200 KiB or MaxChunkKB KiB.
TrimLimits ==
  [agents |-> 1, verifiers |-> 1, faults |-> 0, outcomes |-> BOOLEAN, log |-> 0,
   files |-> {<<>>}, tally |-> FALSE,
   sizes |-> {64 * KB, 200 * KB, MaxChunkKB * KB}, spawns |-> {TRUE}]

\* The server relays the engine's events to its websockets.
SubscribeLimits ==
  [agents |-> 1, verifiers |-> 1, faults |-> MaxFaults,
   outcomes |-> BOOLEAN, log |-> MaxRelayEvents, files |-> {<<>>}, tally |-> FALSE,
   sizes |-> {0}, spawns |-> {TRUE}]

\* _spawnPTY may throw; events are recorded.
SpawnFailLimits ==
  [agents |-> MaxVerifiers + 2, verifiers |-> MaxVerifiers, faults |-> 0,
   outcomes |-> {FALSE}, log |-> MaxSpawnEvents, files |-> {<<>>}, tally |-> FALSE,
   sizes |-> {0}, spawns |-> BOOLEAN]

\* A saved session is found at start; events are recorded.
ResumeLimits ==
  [agents |-> MaxResumeCounter, verifiers |-> 0, faults |-> MaxFaults,
   outcomes |-> {}, log |-> MaxResumeEvents, files |-> {<<>>}, tally |-> FALSE, sizes |-> {0}, spawns |-> {TRUE}]

\* ---------------------------------------------------------------- values
\* loadSession finds no file.
NoSession == [found |-> FALSE, agents |-> <<>>, agentCounter |-> 0]

\* Statuses an agent can have when cleanup() saves the session.
SessionStatuses == {"working", "done", "killed"}

\* saveSession({ agents: this.agents, agentCounter: this.agentCounter, ... })
\* of an earlier run that had spawned agent-1 .. agent-n interactively.
SavedSessions ==
  {[found |-> TRUE, agents |-> [k \in 1..n |-> [id |-> k, status |-> st[k]]],
    agentCounter |-> n] :
     n \in 1..MaxSessionAgents, st \in [1..MaxSessionAgents -> SessionStatuses]}

NoStory == "none"

\* What a stretch of PTY output holds: a HOMER_DONE token, a HOMER_BLOCKED
\* token, other text, or an ANSI escape sequence.
ChunkKinds == {"done", "blocked", "plain", "ansi"}

TerminalStatuses == {"done", "blocked", "failed", "rerouted", "exited", "killed"}

ActiveStatuses == {"working", "verifying"}

\* `criteria` is story.acceptanceCriteria.length.
InitialPRD ==
  << [id |-> "US-001", priority |-> 0, passes |-> FALSE, notes |-> <<>>, criteria |-> 1],
     [id |-> "US-002", priority |-> 1, passes |-> FALSE, notes |-> <<>>, criteria |-> 2] >>

\* A PRD whose first story has three acceptance criteria.
DecomposedPRD ==
  << [id |-> "US-003", priority |-> 1, passes |-> FALSE, notes |-> <<>>, criteria |-> 3],
     [id |-> "US-004", priority |-> 2, passes |-> FALSE, notes |-> <<>>, criteria |-> 1] >>

StoryIds == {InitialPRD[k].id : k \in DOMAIN InitialPRD}

\* id: `${story.id}-${i + 1}` for the i-th acceptance criterion
SubtaskNames == <<"US-003-1", "US-003-2", "US-003-3">>

\* The task keys of a run: stories, sub-tasks, and no task.
TaskKeys ==
  StoryIds \cup {DecomposedPRD[k].id : k \in DOMAIN DecomposedPRD}
           \cup {SubtaskNames[i] : i \in DOMAIN SubtaskNames} \cup {NoStory}

\* ------------------------------------------------------------ tasks.js
\* (a.priority || 99): a missing or zero priority counts as 99.
Priority(story) ==
  IF "priority" \notin DOMAIN story \/ story.priority = 0 THEN DEFAULT_PRIORITY
  ELSE story.priority

\* filter(!passes).sort(by priority)[0] || null, as an index of p (0 = null);
\* Array.prototype.sort is stable, so equal priorities keep PRD order.
nextStory(p) ==
  LET incomplete == {k \in DOMAIN p : ~p[k].passes}
  IN IF incomplete = {} THEN 0
     ELSE CHOOSE k \in incomplete :
            \A j \in incomplete :
              \/ Priority(p[k]) < Priority(p[j])
              \/ Priority(p[k]) = Priority(p[j]) /\ k <= j

markStoryPassed(p, storyId, notes) ==
  [k \in DOMAIN p |->
     IF p[k].id = storyId THEN [p[k] EXCEPT !.passes = TRUE, !.notes = notes] ELSE p[k]]

\* if (!story.acceptanceCriteria || story.acceptanceCriteria.length <= 2) return null
DECOMPOSE_OVER == 2

\* decomposeStory(story): the ids of the sub-tasks, one per criterion, or
\* <<>> for null.
decomposeStory(story) ==
  IF story.criteria <= DECOMPOSE_OVER THEN <<>>
  ELSE [i \in 1..story.criteria |-> SubtaskNames[i]]

\* _parentId of a sub-task story ({ ...next, _isSubtask: true, _parentId }),
\* NoStory for a story that is no sub-task.
ParentOf(storyId) ==
  IF \E i \in DOMAIN SubtaskNames : SubtaskNames[i] = storyId THEN "US-003" ELSE NoStory

\* keeps passes = false, adds notes
markStoryFailed(p, storyId, notes) ==
  [k \in DOMAIN p |->
     IF p[k].id = storyId THEN [p[k] EXCEPT !.notes = notes] ELSE p[k]]

\* ----------------------------------------------------------- engine.js
taskKey(agent) == agent.story

\* s.replace(/\x1b\[[0-9;]*[a-zA-Z]/g, "").replace(/\x1b\][^\x07]*\x07/g, "")
stripAnsi(buffer) == SelectSeq(buffer, LAMBDA c : c # "ansi")

\* clean.slice(-500), in whole chunks: a chunk that is
\* only partly inside the last TAIL_LEN characters has lost its token.
TailWindow(buffer) ==
  LET n == TAIL_LEN \div ChunkLen
  IN IF Len(buffer) <= n THEN buffer
     ELSE SubSeq(buffer, Len(buffer) - n + 1, Len(buffer))

\* Sequences of at most n chunks.
ChunkSeqs(n) == UNION {[1..m -> ChunkKinds] : m \in 0..n}

\* The buffers the engine's onData is tried on.
SampleBuffers ==
  {<<"plain">>, <<"done">>, <<"blocked">>, <<"blocked", "ansi", "done">>}

Includes(tail, kind) == \E k \in DOMAIN tail : tail[k] = kind

\* if (tail.includes("HOMER_DONE")) ... else if (tail.includes("HOMER_BLOCKED")) ...
ScanSignal(tail) ==
  IF Includes(tail, "done") THEN "done"
  ELSE IF Includes(tail, "blocked") THEN "blocked"
  ELSE "none"

CanSignal_any(agent) == TRUE

\* if (agent.status !== "working") return;
CanSignal(agent) == agent.status = "working"

VerifyCapReached_off(agent) == agent.verifyAttempts > MAX_VERIFY

\* if (agent.verifyAttempts >= MAX_VERIFY)
VerifyCapReached(agent) == agent.verifyAttempts >= MAX_VERIFY

\* if (retries >= MAX_REROUTES)
RerouteRefused(retries) == retries >= MAX_REROUTES

\* ------------------------------------------------------------- memory.js
\* A confidence c (REAL) is kept as the integer c * SCALE.
SCALE == 1000000

\* const ALPHA = 0.3, in tenths
ALPHA == 3
MAX_RULES == 8
\* DELETE FROM repo_rules WHERE confidence <= 0.05 AND misses > 3
PRUNE_MISSES == 3
\* SELECT id FROM task_runs ORDER BY created_at DESC LIMIT 500
KEEP_RUNS == 500

Tenths(n) == (n * SCALE) \div 10

Min(a, b) == IF a <= b THEN a ELSE b

Max(a, b) == IF a >= b THEN a ELSE b

\* confidence REAL DEFAULT 0.5
DEFAULT_CONFIDENCE == Tenths(5)

\* MIN(confidence + ALPHA * (1.0 - confidence), 1.0)
emaSuccess(c) == Min(c + (ALPHA * (SCALE - c)) \div 10, SCALE)

emaFailure_raw(c) == c + (ALPHA * (0 - SCALE - c)) \div 10

\* MAX(confidence + ALPHA * (-1.0 - confidence), 0.0)
emaFailure(c) == Max(c + (ALPHA * (0 - SCALE - c)) \div 10, 0)

\* CAST(hits + 1 AS REAL) / (hits + misses + 2), for the updated hits and misses
laplace(hits, misses) == ((hits + 1) * SCALE) \div (hits + misses + 2)

afterHit_stale(hits, misses) == laplace(hits, misses)

\* SET hits = hits + 1, confidence = CAST(hits + 1 + 1 AS REAL) / (hits + 1 + misses + 2):
\* the right-hand sides read the row as it was.
afterHit(hits, misses) == laplace(hits + 1, misses)

\* SET misses = misses + 1, confidence = CAST(hits + 1 AS REAL) / (hits + misses + 1 + 2)
afterMiss(hits, misses) == laplace(hits, misses + 1)

\* Math.min(existing.confidence + 0.1, 1.0)
boost(c) == Min(c + Tenths(1), SCALE)

\* An error key names the check, the error code and the file.
ErrorKey == [check |-> "typecheck", code |-> "TS2322", file |-> "lib/auth.js"]

FileScope(fp) == [kind |-> "file", name |-> fp]

CheckScope(check) == [kind |-> "check", name |-> check]

RepoScope == [kind |-> "repo", name |-> ""]

\* initMemory on a fresh directory: SCHEMA_V2, no rows.
EmptyMemory ==
  [db |-> TRUE, task_runs |-> <<>>, episodes |-> <<>>, solutions |-> <<>>,
   repo_rules |-> <<>>, nextRuleId |-> 1, lastInjected |-> <<>>,
   error_file_relations |-> <<>>, file_knowledge |-> <<>>]

\* let db = null: initMemory threw or was never called; every function of the
\* module returns at `if (!db)`.
NoMemory == [EmptyMemory EXCEPT !.db = FALSE]

\* A call of the memory module from outside the engine: the function called,
\* what it returned, and the ids of the rules listed by the text of the most
\* recent buildTaskMemory.
NoOp == [op |-> "none", ret |-> <<>>, surfaced |-> <<>>, threw |-> FALSE]

Last(set) == CHOOSE k \in set : \A j \in set : j <= k

latestRun_none(mem, agentId, key) == 0

\* SELECT ... FROM task_runs WHERE agent_id = ? AND task_key = ?
\* ORDER BY created_at DESC LIMIT 1, as a row number (0: no row)
latestRun(mem, agentId, key) ==
  LET rows == {k \in DOMAIN mem.task_runs :
                 mem.task_runs[k].agent_id = agentId /\ mem.task_runs[k].task_key = key}
  IN IF rows = {} THEN 0 ELSE Last(rows)

FindSolution(mem, errorKey) ==
  LET rows == {k \in DOMAIN mem.solutions : mem.solutions[k].error_key = errorKey}
  IN IF rows = {} THEN 0 ELSE CHOOSE k \in rows : TRUE

FindRule(mem, scope, rule) ==
  LET rows == {k \in DOMAIN mem.repo_rules :
                 mem.repo_rules[k].scope = scope /\ mem.repo_rules[k].rule = rule}
  IN IF rows = {} THEN 0 ELSE CHOOSE k \in rows : TRUE

_upsertSolution(mem, errorKey, key) ==
  LET k == FindSolution(mem, errorKey)
  IN IF k # 0
     THEN [mem EXCEPT !.solutions[k].attempts = @ + 1, !.solutions[k].task_key = key]
     ELSE [mem EXCEPT !.solutions =
             Append(@, [error_key |-> errorKey, task_key |-> key,
                        confidence |-> DEFAULT_CONFIDENCE, attempts |-> 1, resolved |-> 0])]

RECURSIVE UpsertSolutions(_, _, _)
UpsertSolutions(mem, errors, key) ==
  IF errors = <<>> THEN mem
  ELSE UpsertSolutions(_upsertSolution(mem, Head(errors), key), Tail(errors), key)

upsertRule(mem, scope, rule, confidence) ==
  IF ~mem.db THEN mem ELSE
  LET k == FindRule(mem, scope, rule)
  IN IF k # 0
     THEN [mem EXCEPT !.repo_rules[k].confidence = boost(@)]
     ELSE [mem EXCEPT !.repo_rules =
             Append(@, [id |-> mem.nextRuleId, scope |-> scope, rule |-> rule,
                        confidence |-> confidence, hits |-> 0, misses |-> 0]),
                      !.nextRuleId = @ + 1]

\* UPDATE repo_rules SET hits = hits + 1, confidence = MIN(confidence + ?, 1.0)
\* WHERE id = ?
strengthenRule(mem, id, amount) ==
  IF ~mem.db THEN mem ELSE
  [mem EXCEPT !.repo_rules =
     [k \in DOMAIN @ |->
        IF @[k].id = id
        THEN [@[k] EXCEPT !.hits = @ + 1, !.confidence = Min(@ + amount, SCALE)]
        ELSE @[k]]]

Weakened(rules, id, amount) ==
  [k \in DOMAIN rules |->
     IF rules[k].id = id
     THEN [rules[k] EXCEPT !.misses = @ + 1, !.confidence = Max(@ - amount, 0)]
     ELSE rules[k]]

weakenRule_unguarded(mem, id, amount) ==
  [mem EXCEPT !.repo_rules =
     SelectSeq(Weakened(@, id, amount), LAMBDA r : ~(r.id = id /\ r.confidence <= 0))]

\* UPDATE repo_rules SET misses = misses + 1, confidence = MAX(confidence - ?, 0.0)
\* WHERE id = ?; DELETE FROM repo_rules WHERE id = ? AND confidence <= 0.0
weakenRule(mem, id, amount) ==
  IF ~mem.db THEN mem ELSE
  [mem EXCEPT !.repo_rules =
     SelectSeq(Weakened(@, id, amount), LAMBDA r : ~(r.id = id /\ r.confidence <= 0))]

\* A field of `data` that was not given; a given list is kept as its JSON text.
NoList == [given |-> FALSE, list |-> <<>>]

FindFile(mem, filePath) ==
  LET rows == {k \in DOMAIN mem.file_knowledge : mem.file_knowledge[k].path = filePath}
  IN IF rows = {} THEN 0 ELSE CHOOSE k \in rows : TRUE

\* An existing row takes the given fields; a new row takes them all, null where
\* not given.
updateFileKnowledge(mem, filePath, data) ==
  IF ~mem.db THEN mem ELSE
  LET k == FindFile(mem, filePath)
  IN IF k # 0
     THEN [mem EXCEPT
             !.file_knowledge[k].imports = IF data.imports.given THEN data.imports ELSE @,
             !.file_knowledge[k].exports = IF data.exports.given THEN data.exports ELSE @,
             !.file_knowledge[k].cochanges =
                IF data.cochanges.given THEN data.cochanges ELSE @]
     ELSE [mem EXCEPT !.file_knowledge =
             Append(@, [path |-> filePath, imports |-> data.imports,
                        exports |-> data.exports, cochanges |-> data.cochanges])]

\* db.close(); db = null: the rows stay in the file.
closeMemory(mem) == IF mem.db THEN [mem EXCEPT !.db = FALSE] ELSE mem

FindRelation(mem, errorKey, fp) ==
  LET rows == {k \in DOMAIN mem.error_file_relations :
                 /\ mem.error_file_relations[k].error_key = errorKey
                 /\ mem.error_file_relations[k].file_path = fp
                 /\ mem.error_file_relations[k].relation = "caused_by"}
  IN IF rows = {} THEN 0 ELSE CHOOSE k \in rows : TRUE

InsertRelation(mem, errorKey, fp) ==
  [mem EXCEPT !.error_file_relations =
     Append(@, [error_key |-> errorKey, file_path |-> fp, relation |-> "caused_by",
                occurrences |-> 1])]

relate_insert(mem, errorKey, fp) == InsertRelation(mem, errorKey, fp)

\* SELECT id FROM error_file_relations WHERE ...; if (existing) UPDATE ... SET
\* occurrences = occurrences + 1 else INSERT
relate(mem, errorKey, fp) ==
  LET k == FindRelation(mem, errorKey, fp)
  IN IF k # 0 THEN [mem EXCEPT !.error_file_relations[k].occurrences = @ + 1]
     ELSE InsertRelation(mem, errorKey, fp)

\* for (const fp of filesTouched) ...
RECURSIVE RelateFiles(_, _, _)
RelateFiles(mem, errorKey, files) ==
  IF files = <<>> THEN mem
  ELSE RelateFiles(relate(mem, errorKey, Head(files)), errorKey, Tail(files))

\* for (const check of failed) ...
RECURSIVE RelateErrors(_, _, _)
RelateErrors(mem, errors, files) ==
  IF errors = <<>> THEN mem
  ELSE RelateErrors(RelateFiles(mem, Head(errors), files), Tail(errors), files)

\* INSERT INTO verification_episodes (...), then the error -> file relations
\* of the failed checks.
recordEpisode(mem, agentId, key, attempt, passed, errors, filesTouched) ==
  IF ~mem.db THEN mem ELSE
  RelateErrors([mem EXCEPT !.episodes =
                  Append(@, [agent_id |-> agentId, task_key |-> key, attempt |-> attempt,
                             passed |-> passed, errors |-> errors])],
               errors, filesTouched)

\* `errors` are the error keys of the failed checks of verifyResult, none when
\* it passed.
recordVerification(mem, agentId, key, passed, errors, filesTouched, attempt) ==
  IF ~mem.db \/ key = NoStory THEN mem ELSE
  LET m1 == recordEpisode(mem, agentId, key, attempt, passed, errors, filesTouched)
      k  == latestRun(m1, agentId, key)
      outcome == IF passed THEN "passed" ELSE "running"
      m2 == IF k # 0
            THEN [m1 EXCEPT !.task_runs[k].attempts = @ + 1,
                            !.task_runs[k].errors = errors,
                            !.task_runs[k].outcome = outcome]
            ELSE [m1 EXCEPT !.task_runs =
                    Append(@, [agent_id |-> agentId, task_key |-> key, outcome |-> outcome,
                               attempts |-> 1, errors |-> errors])]
  IN UpsertSolutions(m2, errors, key)

\* UPDATE solutions SET resolved = 1, confidence = ... WHERE error_key = ? AND resolved = 0
RECURSIVE ResolveSolutions(_, _)
ResolveSolutions(mem, errors) ==
  IF errors = <<>> THEN mem
  ELSE LET k == FindSolution(mem, Head(errors))
           m == IF k # 0 /\ mem.solutions[k].resolved = 0
                THEN [mem EXCEPT !.solutions[k].resolved = 1,
                                 !.solutions[k].confidence = emaSuccess(@)]
                ELSE mem
       IN ResolveSolutions(m, Tail(errors))

\* UPDATE repo_rules SET hits = hits + 1, confidence = ... WHERE id = ?
RECURSIVE HitRules(_, _)
HitRules(mem, ids) ==
  IF ids = <<>> THEN mem
  ELSE HitRules(
         [mem EXCEPT !.repo_rules =
            [k \in DOMAIN @ |->
               IF @[k].id = Head(ids)
               THEN [@[k] EXCEPT !.hits = @ + 1,
                                 !.confidence = afterHit(mem.repo_rules[k].hits, mem.repo_rules[k].misses)]
               ELSE @[k]]],
         Tail(ids))

\* UPDATE repo_rules SET misses = misses + 1, confidence = ... WHERE id = ?
RECURSIVE MissRules(_, _)
MissRules(mem, ids) ==
  IF ids = <<>> THEN mem
  ELSE MissRules(
         [mem EXCEPT !.repo_rules =
            [k \in DOMAIN @ |->
               IF @[k].id = Head(ids)
               THEN [@[k] EXCEPT !.misses = @ + 1,
                                 !.confidence = afterMiss(mem.repo_rules[k].hits, mem.repo_rules[k].misses)]
               ELSE @[k]]],
         Tail(ids))

\* recordSuccess up to its loop over injectedRuleIds.
SuccessRuns(mem, agentId, key, verifyAttempts) ==
  LET k  == latestRun(mem, agentId, key)
      m1 == IF k # 0
            THEN [mem EXCEPT !.task_runs[k].outcome = "passed",
                             !.task_runs[k].attempts = verifyAttempts]
            ELSE mem
  IN IF k # 0 THEN ResolveSolutions(m1, m1.task_runs[k].errors) ELSE m1

recordSuccess(mem, agentId, key, filesTouched, verifyAttempts, injectedRuleIds) ==
  IF ~mem.db \/ key = NoStory THEN mem ELSE
  LET m3 == HitRules(SuccessRuns(mem, agentId, key, verifyAttempts), injectedRuleIds)
  IN IF verifyAttempts > 1 /\ filesTouched # <<>>
     THEN upsertRule(m3, FileScope(filesTouched[1]),
                     <<"needed attempts", key, verifyAttempts, filesTouched>>, Tenths(6))
     ELSE m3

\* UPDATE solutions SET confidence = ... WHERE error_key LIKE '%' || fp || '%' AND resolved = 0
RECURSIVE DecaySolutions(_, _)
DecaySolutions(mem, files) ==
  IF files = <<>> THEN mem
  ELSE DecaySolutions(
         [mem EXCEPT !.solutions =
            [k \in DOMAIN @ |->
               IF @[k].error_key.file = Head(files) /\ @[k].resolved = 0
               THEN [@[k] EXCEPT !.confidence = emaFailure(@)]
               ELSE @[k]]],
         Tail(files))

\* DELETE FROM repo_rules WHERE confidence <= 0.05 AND misses > 3
PruneRules(mem) ==
  [mem EXCEPT !.repo_rules =
     SelectSeq(@, LAMBDA r : ~(r.confidence <= SCALE \div 20 /\ r.misses > PRUNE_MISSES))]

\* consolidate(): DELETE FROM solutions WHERE confidence < 0.1 AND resolved = 0;
\* DELETE FROM repo_rules WHERE confidence <= 0.05; and task_runs keeps the
\* KEEP_RUNS most recent rows.
consolidate(mem) ==
  IF ~mem.db THEN mem ELSE
  [mem EXCEPT
     !.solutions = SelectSeq(@, LAMBDA r : ~(r.confidence < Tenths(1) /\ r.resolved = 0)),
     !.repo_rules = SelectSeq(@, LAMBDA r : ~(r.confidence <= SCALE \div 20)),
     !.task_runs = SubSeq(@, Max(1, Len(@) - KEEP_RUNS + 1), Len(@))]

RECURSIVE PersistRules(_, _, _)
PersistRules(mem, errors, fp) ==
  IF errors = <<>> THEN mem
  ELSE LET m1 == upsertRule(mem, FileScope(fp), <<"persists", Head(errors)>>, Tenths(4))
           m2 == upsertRule(m1, CheckScope(Head(errors).check),
                            <<"not resolved", Head(errors)>>, Tenths(3))
       IN PersistRules(m2, Tail(errors), fp)

\* recordFailure up to its loop over injectedRuleIds.
FailureRuns(mem, agentId, key, outcome, filesTouched) ==
  LET k  == IF key = NoStory THEN 0 ELSE latestRun(mem, agentId, key)
      m1 == IF key = NoStory THEN mem
            ELSE IF k # 0 THEN [mem EXCEPT !.task_runs[k].outcome = outcome]
            ELSE [mem EXCEPT !.task_runs =
                    Append(@, [agent_id |-> agentId, task_key |-> key, outcome |-> outcome,
                               attempts |-> 0, errors |-> <<>>])]
  IN DecaySolutions(m1, filesTouched)

recordFailure(mem, agentId, key, outcome, filesTouched, injectedRuleIds) ==
  IF ~mem.db THEN mem ELSE
  LET m2 == PruneRules(MissRules(FailureRuns(mem, agentId, key, outcome, filesTouched),
                                 injectedRuleIds))
      k2 == IF key = NoStory THEN 0 ELSE latestRun(m2, agentId, key)
  IN IF k2 # 0 /\ filesTouched # <<>>
     THEN PersistRules(m2, SubSeq(m2.task_runs[k2].errors, 1, Min(2, Len(m2.task_runs[k2].errors))),
                       filesTouched[1])
     ELSE m2

\* The error code that /TS\d{4,5}|Error:\s*.{10,50}/ finds in a history entry
\* of a check that failed with ErrorKey.
HistoryCode == ErrorKey.code

\* extractMemories(agent): a task_runs row if the pair has none, and a rule
\* per error seen at least twice in agent.verifyHistory.
extractMemories(mem, agent, filePaths) ==
  IF ~mem.db THEN mem ELSE
  LET key == taskKey(agent)
      m1  == IF key # NoStory /\ latestRun(mem, agent.id, key) = 0
             THEN [mem EXCEPT !.task_runs =
                     Append(@, [agent_id |-> agent.id, task_key |-> key,
                                outcome |-> IF agent.status = "done" THEN "passed"
                                            ELSE IF agent.status = "blocked" THEN "blocked"
                                            ELSE IF agent.status = "exited" THEN "crashed"
                                            ELSE "failed",
                                attempts |-> agent.verifyAttempts, errors |-> <<>>])]
             ELSE mem
      scope == IF filePaths # <<>> THEN FileScope(filePaths[1]) ELSE RepoScope
  IN IF Len(agent.verifyHistory) >= 2
     THEN IF agent.status = "done"
          THEN upsertRule(m1, scope, <<"tricky", HistoryCode, agent.verifyAttempts>>, Tenths(6))
          ELSE upsertRule(m1, scope, <<"not resolved", HistoryCode>>, Tenths(4))
     ELSE m1

\* ORDER BY confidence DESC; rows of equal confidence in rowid order
RECURSIVE ByConfidence(_, _)
ByConfidence(rules, rows) ==
  IF rows = {} THEN <<>>
  ELSE LET k == CHOOSE r \in rows :
                  \A q \in rows : \/ rules[q].confidence < rules[r].confidence
                                  \/ (rules[q].confidence = rules[r].confidence /\ r <= q)
       IN <<rules[k]>> \o ByConfidence(rules, rows \ {k})

Limit(seq, n) == SubSeq(seq, 1, Min(n, Len(seq)))

\* SELECT ... FROM repo_rules WHERE <kind and name of scope> AND confidence > floor
\* ORDER BY confidence DESC LIMIT n
SelectRules(mem, kind, names, floor, n) ==
  Limit(ByConfidence(mem.repo_rules,
                     {k \in DOMAIN mem.repo_rules :
                        /\ mem.repo_rules[k].scope.kind = kind
                        /\ mem.repo_rules[k].scope.name \in names
                        /\ mem.repo_rules[k].confidence > floor}), n)

\* if (!seen.has(r.rule)) { seen.add(r.rule); rules.push(r); }
RECURSIVE PushUnseen(_, _)
PushUnseen(rules, found) ==
  IF found = <<>> THEN rules
  ELSE PushUnseen(IF \E k \in DOMAIN rules : rules[k].rule = Head(found).rule
                  THEN rules ELSE Append(rules, Head(found)),
                  Tail(found))

RECURSIVE FileRules(_, _, _)
FileRules(mem, filePaths, rules) ==
  IF filePaths = <<>> THEN rules
  ELSE FileRules(mem, Tail(filePaths),
                 PushUnseen(rules, SelectRules(mem, "file", {Head(filePaths)}, Tenths(1), 3)))

CheckNames(mem) == {mem.repo_rules[k].scope.name : k \in DOMAIN mem.repo_rules}

\* The rules _getApplicableRules returns.
ApplicableRules(mem, filePaths, includeCheckScoped) ==
  IF ~mem.db THEN <<>> ELSE
  LET r1 == FileRules(mem, Limit(filePaths, 5), <<>>)
      r2 == IF includeCheckScoped
            THEN PushUnseen(r1, SelectRules(mem, "check", CheckNames(mem), Tenths(2), 5))
            ELSE r1
  IN PushUnseen(r2, SelectRules(mem, "repo", {""}, Tenths(3), 5))

RuleIds(rules) == [k \in DOMAIN rules |-> rules[k].id]

\* _lastInjectedRuleIds = rules.map(r => r.id)
_getApplicableRules(mem, filePaths, includeCheckScoped) ==
  IF ~mem.db THEN mem
  ELSE [mem EXCEPT !.lastInjected = RuleIds(ApplicableRules(mem, filePaths, includeCheckScoped))]

\* return [..._lastInjectedRuleIds]
getLastInjectedRuleIds(mem) == mem.lastInjected

\* buildTaskMemory: the store after the call, and the ids of the rules its
\* text lists under PATTERNS FROM MEMORY.
buildTaskMemory(mem, key, filePaths) == _getApplicableRules(mem, filePaths, TRUE)

TaskMemoryRules(mem, key, filePaths) ==
  RuleIds(Limit(ApplicableRules(mem, filePaths, TRUE), MAX_RULES))

\* buildRerouteContext: the store after the call, and the ids of the rules
\* its text lists under KNOWN PATTERNS.
buildRerouteContext(mem, key, filePaths) == _getApplicableRules(mem, filePaths, FALSE)

RerouteContextRules(mem, key, filePaths) ==
  RuleIds(Limit(ApplicableRules(mem, filePaths, FALSE), 5))

\* buildRuleHints reads solutions and rules through getRulesForScope and
\* getRepoRules, and writes nothing.
buildRuleHints(mem, filePaths) == mem


\* ------------------------------------------------------------- engine.js
\* A timer may fire unless one set no later with no longer a delay is pending
\* (timers is ordered by set time, and by delay among those of one handler).
CanFire(tms, i) == \A j \in 1..(i - 1) : tms[j].delay > tms[i].delay

RemoveAt(seq, i) == SubSeq(seq, 1, i - 1) \o SubSeq(seq, i + 1, Len(seq))

\* setTimeout(cb, delay) in a handler that found `base` timers pending.
setTimeout(tms, t, base) ==
  LET older == SubSeq(tms, 1, base)
      mine  == SubSeq(tms, base + 1, Len(tms))
      k     == Cardinality({j \in DOMAIN mine : mine[j].delay <= t.delay})
  IN older \o SubSeq(mine, 1, k) \o <<t>> \o SubSeq(mine, k + 1, Len(mine))

\* `ctx` is what the callback closes over: the rules listed in rerouteCtx.
Timer(kind, agent, delay) == [kind |-> kind, agent |-> agent, delay |-> delay, ctx |-> <<>>]

\* The engine's mutable state as one record, so that a handler's helpers
\* compose as functions of it.
Cur ==
  [agents |-> agents, agentCounter |-> agentCounter,
   taskRetryCounts |-> taskRetryCounts, prd |-> prd, timers |-> timers,
   events |-> events, memory |-> memory, subtaskMap |-> subtaskMap,
   consolidation |-> consolidation, session |-> session, clients |-> clients,
   lastSpawn |-> lastSpawn]

Becomes(s) ==
  /\ Len(s.events) <= limits.log
  /\ events' = s.events
  /\ agents' = s.agents
  /\ agentCounter' = s.agentCounter
  /\ taskRetryCounts' = s.taskRetryCounts
  /\ prd' = s.prd
  /\ timers' = s.timers
  /\ memory' = s.memory
  /\ subtaskMap' = s.subtaskMap
  /\ consolidation' = s.consolidation
  /\ session' = s.session
  /\ clients' = s.clients
  /\ lastSpawn' = s.lastSpawn
  /\ UNCHANGED <<opts, lastOp, memOps, stateClock>>
  /\ LibraryIdle

Event(type, id, arg, prev) == [type |-> type, id |-> id, arg |-> arg, prev |-> prev]

\* for (const ev of [...]) engine.on(ev, (data) => relay(ev, data || {}))
RelayedEvents ==
  {"agent:spawned", "agent:output", "agent:status", "agent:done", "agent:rerouted",
   "verify:start", "verify:result", "state", "session:found", "error"}

\* for (const ws of clients) ws.send(msg)
relay(cls, type) ==
  [k \in DOMAIN cls |->
     IF cls[k].open THEN [cls[k] EXCEPT !.inbox = Append(@, type)] ELSE cls[k]]

\* this.emit(type, payload); a run that records nothing keeps the log empty.
emit(s, e) ==
  IF limits.log = 0 THEN s
  ELSE [s EXCEPT !.events = Append(@, e),
                 !.clients = IF e.type \in RelayedEvents THEN relay(@, e.type) ELSE @]

websocketOpen_silent(cls) == Append(cls, [open |-> TRUE, inbox |-> <<>>])

\* open(ws): clients.add(ws); ws.send({ type: "state", ...engine.getState() })
websocketOpen(cls) == Append(cls, [open |-> TRUE, inbox |-> <<"state">>])

\* close(ws): clients.delete(ws)
websocketClose(cls, k) == [cls EXCEPT ![k].open = FALSE]

\* const prev = agent.status === status ? null : agent.status;
\* this.emit("agent:status", { id, status, prev })
_setStatus(s, i, status) ==
  emit(s, Event("agent:status", s.agents[i].id, status,
                IF s.agents[i].status = status THEN "null" ELSE s.agents[i].status))

writeFeedback_none(s, i) == s

\* agent.pty.write("\n" + feedback + history + "\n")
writeFeedback(s, i) == emit(s, Event("pty:write", s.agents[i].id, "feedback", "null"))

verifyStart_none(s, i) == s

\* this.emit("verify:start", { id: agent.id })
verifyStart(s, i) == emit(s, Event("verify:start", s.agents[i].id, "null", "null"))

Verifiers(ags) == {j \in DOMAIN ags : ags[j].verifyAttempts > 0}

ActiveAgents(ags) == {i \in DOMAIN ags : ags[i].status \in ActiveStatuses}

\* `promptRules` are the ids of the memory rules in the text the agent is
\* given: buildStoryPrompt, buildTaskPrompt and buildSystemPrompt read no rules.
\* `outputLen` is agent.outputBuffer.length, and `snippets` the lengths of the
\* outputSnippet of each verifyHistory entry.
_makeAgent(mem, id, story) ==
  [id |-> id, story |-> story, status |-> "working",
   verifyAttempts |-> 0, verifyHistory |-> <<>>,
   injectedRuleIds |-> getLastInjectedRuleIds(mem), promptRules |-> <<>>,
   outputLen |-> 0, snippets |-> <<>>,
   alive |-> TRUE]

\* entry.subtasks.find(st => !st.passes && !entry.completed.has(st.id)), as
\* an index (0: none); st.passes is never set.
PendingSubtask(entry) ==
  LET open == {i \in DOMAIN entry.subtasks : entry.subtasks[i] \notin entry.completed}
  IN IF open = {} THEN 0 ELSE CHOOSE i \in open : \A j \in open : i <= j

\* The entries of the map with a pending sub-task whose parent is in the PRD.
PendingEntries(s) ==
  {e \in DOMAIN s.subtaskMap :
     /\ PendingSubtask(s.subtaskMap[e]) # 0
     /\ \E k \in DOMAIN s.prd : s.prd[k].id = s.subtaskMap[e].parentId}

\* The story id of the task _pickNextTask returns (issues are not modelled).
_pickNextTask(s) ==
  IF PendingEntries(s) # {}
  THEN LET e == CHOOSE e \in PendingEntries(s) : \A f \in PendingEntries(s) : e <= f
       IN s.subtaskMap[e].subtasks[PendingSubtask(s.subtaskMap[e])]
  ELSE LET k == nextStory(s.prd)
       IN IF k = 0 THEN NoStory
          ELSE IF decomposeStory(s.prd[k]) # <<>> THEN decomposeStory(s.prd[k])[1]
          ELSE s.prd[k].id

\* this.subtaskMap.set(story.id, { subtasks, completed: new Set() })
MapSet(map, parentId, subtasks) ==
  LET entry == [parentId |-> parentId, subtasks |-> subtasks, completed |-> {}]
  IN IF \E e \in DOMAIN map : map[e].parentId = parentId
     THEN [e \in DOMAIN map |-> IF map[e].parentId = parentId THEN entry ELSE map[e]]
     ELSE Append(map, entry)

\* this.subtaskMap once _pickNextTask has returned.
Decomposed(s) ==
  LET k == nextStory(s.prd)
  IN IF PendingEntries(s) = {} /\ k # 0 /\ decomposeStory(s.prd[k]) # <<>>
     THEN MapSet(s.subtaskMap, s.prd[k].id, decomposeStory(s.prd[k]))
     ELSE s.subtaskMap

\* _makeAgent returned the agent: spawnAgent pushes it.
Spawned(s, issue) ==
  LET id   == s.agentCounter + 1
      pick == issue = NoStory /\ opts.auto
      task == IF pick THEN _pickNextTask(s) ELSE issue
      s1   == [s EXCEPT !.agentCounter = id,
                        !.subtaskMap = IF pick THEN Decomposed(s) ELSE @,
                        !.lastSpawn = [threw |-> FALSE, ret |-> id],
                        !.agents = Append(@, _makeAgent(s.memory, id, task))]
  IN _setStatus(emit(s1, Event("agent:spawned", id, task, "null")), Len(s1.agents), "working")

\* _spawnPTY threw: this.emit("error", { message }); return null, and
\* spawnAgent returns at `if (!agent) return null`.
SpawnFailed(s, issue) ==
  LET pick == issue = NoStory /\ opts.auto
      s1   == [s EXCEPT !.agentCounter = @ + 1,
                        !.subtaskMap = IF pick THEN Decomposed(s) ELSE @,
                        !.lastSpawn = [threw |-> TRUE, ret |-> 0]]
  IN emit(s1, Event("error", 0, "Failed to spawn", "null"))

spawnAgent_partial(s, issue, ok) == [Spawned(s, issue) EXCEPT !.lastSpawn.threw = ~ok]

\* `ok`: _spawnPTY returns a pty rather than throwing.
spawnAgent(s, issue, ok) == IF ok THEN Spawned(s, issue) ELSE SpawnFailed(s, issue)

RECURSIVE SpawnLoop(_, _, _)
SpawnLoop(s, toSpawn, ok) ==
  IF toSpawn = 0 THEN s
  ELSE LET task == _pickNextTask(s)
       IN IF task = NoStory THEN s
          ELSE SpawnLoop(spawnAgent([s EXCEPT !.subtaskMap = Decomposed(s)], task, ok),
                         toSpawn - 1, ok)

\* `ok`: the _spawnPTY calls of this run of the loop return a pty.
_autoSpawnNext(s, ok) ==
  LET active == Cardinality(ActiveAgents(s.agents))
  IN IF ~opts.auto \/ active >= opts.maxAgents THEN s
     ELSE SpawnLoop(s, opts.maxAgents - active, ok)

_reroute(s, i, files) ==
  LET agent   == s.agents[i]
      key     == taskKey(agent)
      retries == s.taskRetryCounts[key]
  IN IF key = NoStory THEN s
     ELSE IF RerouteRefused(retries)
     THEN _setStatus([s EXCEPT !.agents[i].status = "failed",
                               !.prd = markStoryFailed(@, agent.story, <<"Failed after", retries + 1>>)],
                     i, "failed")
     ELSE LET s1 == _setStatus([s EXCEPT !.taskRetryCounts[key] = retries + 1,
                                         !.agents[i].status = "rerouted"],
                               i, "rerouted")
          IN [s1 EXCEPT !.memory = buildRerouteContext(@, key, files),
                        !.timers = Append(@, [Timer("reroute", i, REROUTE_DELAY) EXCEPT
                                                !.ctx = RerouteContextRules(s.memory, key, files)])]

allDone_any(entry) == TRUE

\* entry.subtasks.every(st => entry.completed.has(st.id))
allDone(entry) == \A i \in DOMAIN entry.subtasks : entry.subtasks[i] \in entry.completed

\* The sub-task branch of _finalizeDone: entry.completed.add(agent.story.id),
\* and the parent is marked once allDone.
SubtaskDone(s, storyId) ==
  LET parentId == ParentOf(storyId)
      found    == {e \in DOMAIN s.subtaskMap : s.subtaskMap[e].parentId = parentId}
  IN IF found = {} THEN s
     ELSE LET e  == CHOOSE e \in found : TRUE
              s1 == [s EXCEPT !.subtaskMap[e].completed = @ \cup {storyId}]
          IN IF allDone(s1.subtaskMap[e])
             THEN [s1 EXCEPT !.prd = markStoryPassed(@, parentId,
                                       <<"All sub-tasks completed", Len(s1.subtaskMap[e].subtasks)>>)]
             ELSE s1

doneCount(s) == Cardinality({j \in DOMAIN s.agents : s.agents[j].status = "done"})

\* if (doneCount > 0 && doneCount % 10 === 0)
DueForConsolidate(s) == doneCount(s) > 0 /\ doneCount(s) % CONSOLIDATE_EVERY = 0

\* const doneCount = this.agents.filter(a => a.status === "done").length;
\* if (...) consolidateMemory(): a run that keeps the tally notes the call.
Consolidated(s) ==
  LET n  == s.consolidation.done + 1
      s1 == IF limits.tally THEN [s EXCEPT !.consolidation.done = n] ELSE s
  IN IF DueForConsolidate(s)
     THEN [s1 EXCEPT !.memory = consolidate(@),
                     !.consolidation.calls = IF limits.tally THEN @ \cup {n} ELSE @]
     ELSE s1

_finalizeDone(s, i, files, base) ==
  LET agent == s.agents[i]
      s1 == _setStatus([s EXCEPT !.agents[i].status = "done"], i, "done")
      s2 == IF agent.story = NoStory THEN s1
            ELSE IF ParentOf(agent.story) # NoStory THEN SubtaskDone(s1, agent.story)
            ELSE [s1 EXCEPT !.prd = markStoryPassed(@, agent.story, <<"Completed by", agent.id>>)]
      sm == [s2 EXCEPT !.memory =
               recordSuccess(extractMemories(@, s2.agents[i], files), agent.id, taskKey(agent),
                             files, agent.verifyAttempts, agent.injectedRuleIds)]
      sc == Consolidated(sm)
      s3 == emit(emit(sc, Event("agent:done", agent.id, taskKey(agent), "null")),
                 Event("verify:result", agent.id, agent.verifyAttempts, "passed"))
  IN IF opts.auto
     THEN [s3 EXCEPT !.timers = setTimeout(@, Timer("autoSpawn", 0, DONE_SPAWN_DELAY), base)]
     ELSE s3

_handleDone(s, i, base) ==
  LET s1 == [s EXCEPT !.agents[i].status = "verifying",
                      !.agents[i].verifyAttempts = @ + 1]
      s2 == verifyStart(_setStatus(s1, i, "verifying"), i)
  IN [s2 EXCEPT !.timers = setTimeout(@, Timer("verify", i, VERIFY_DELAY), base)]

_handleBlocked(s, i, files, base) ==
  LET agent == s.agents[i]
      s0 == _setStatus([s EXCEPT !.agents[i].status = "blocked"], i, "blocked")
      s1 == [s0 EXCEPT !.memory =
               recordFailure(extractMemories(@, s0.agents[i], files), agent.id, taskKey(agent),
                             "blocked", files, agent.injectedRuleIds)]
  IN IF opts.auto /\ taskKey(s.agents[i]) # NoStory
     THEN LET s2 == _reroute(s1, i, files)
          IN [s2 EXCEPT !.timers = setTimeout(@, Timer("autoSpawn", 0, BLOCKED_SPAWN_DELAY), base)]
     ELSE s1

\* The setTimeout callback of _handleDone, with runVerification's outcome;
\* a failed result holds one failed check, whose errorKey is ErrorKey.
verifyCallback(s0, i, passed, files, base) ==
  LET agent == s0.agents[i]
      s == [s0 EXCEPT !.memory =
              recordVerification(@, agent.id, taskKey(agent), passed,
                                 IF passed THEN <<>> ELSE <<ErrorKey>>, files,
                                 agent.verifyAttempts)]
  IN IF passed THEN _finalizeDone(s, i, files, base)
     ELSE IF VerifyCapReached(agent)
     THEN _reroute([s EXCEPT !.memory =
                      recordFailure(@, agent.id, taskKey(agent), "failed", files,
                                    agent.injectedRuleIds)],
                   i, files)
     ELSE LET s1 == [s EXCEPT !.agents[i].verifyHistory = Append(@, agent.verifyAttempts),
                              !.agents[i].snippets = Append(@, Min(SNIPPET_LEN, agent.outputLen)),
                              !.agents[i].status = "working"]
              s2 == _setStatus(writeFeedback(s1, i), i, "working")
          IN emit(s2, Event("verify:result", agent.id, agent.verifyAttempts, "failed"))

\* The setTimeout callback of _reroute: the replacement for the same story,
\* and newAgent.pty.write(rerouteCtx) once it is ready.
rerouteCallback(s, i, ctx, ok) ==
  LET newId == s.agentCounter + 1
      s1 == [s EXCEPT !.agentCounter = newId,
                      !.lastSpawn = [threw |-> FALSE, ret |-> newId],
                      !.agents = Append(@, [_makeAgent(s.memory, newId, s.agents[i].story)
                                              EXCEPT !.promptRules = ctx])]
      s2 == _setStatus(emit(s1, Event("agent:spawned", newId, s.agents[i].story, "null")),
                       Len(s1.agents), "working")
  IN IF ok THEN emit(s2, Event("agent:rerouted", s.agents[i].id, newId, "null"))
     ELSE emit([s EXCEPT !.agentCounter = newId,
                         !.lastSpawn = [threw |-> TRUE, ret |-> 0]],
               Event("error", 0, "Failed to spawn", "null"))

RECURSIVE Sum(_)
Sum(seq) == IF seq = <<>> THEN 0 ELSE Head(seq) + Sum(Tail(seq))

\* agent.verifyHistory.map(h => h.outputSnippet).join("\n").length
HistLen(snippets) == IF snippets = <<>> THEN 0 ELSE Sum(snippets) + Len(snippets) - 1

_trimBuffer_keepAll(len, snippets) == len

\* The length of agent.outputBuffer after _trimBuffer:
\* hist + "\n" + agent.outputBuffer.slice(-keep) once it is over BUFFER_TRIM_KB.
_trimBuffer(len, snippets) ==
  IF len > BUFFER_TRIM_KB * KB
  THEN HistLen(snippets) + 1 + Min(BUFFER_KEEP_KB * KB, len)
  ELSE len

\* `tail` is stripAnsi(agent.outputBuffer).slice(-500) once data is appended,
\* `size` is data.length.
onData(s, i, size, tail, files, base) ==
  LET signal == ScanSignal(tail)
      sb     == [s EXCEPT !.agents[i].outputLen = _trimBuffer(@ + size, s.agents[i].snippets)]
      s0     == emit(sb, Event("agent:output", s.agents[i].id, "data", "null"))
  IN IF ~CanSignal(s.agents[i]) THEN s0
     ELSE IF signal = "done" THEN _handleDone(s0, i, base)
     ELSE IF signal = "blocked" THEN _handleBlocked(s0, i, files, base)
     ELSE s0

onExit(s, i, files, base) ==
  LET agent == s.agents[i]
      s0 == [s EXCEPT !.agents[i].alive = FALSE]
  IN IF s.agents[i].status = "working"
     THEN LET se == _setStatus([s0 EXCEPT !.agents[i].status = "exited"], i, "exited")
              s1 == [se EXCEPT !.memory =
                       recordFailure(extractMemories(@, se.agents[i], files), agent.id,
                                     taskKey(agent), "crashed", files, agent.injectedRuleIds)]
          IN IF opts.auto /\ taskKey(s.agents[i]) # NoStory
             THEN LET s2 == _reroute(s1, i, files)
                  IN [s2 EXCEPT !.timers = setTimeout(@, Timer("autoSpawn", 0, EXIT_SPAWN_DELAY), base)]
             ELSE s1
     ELSE s0

killAgent(s, i) == _setStatus([s EXCEPT !.agents[i].status = "killed"], i, "killed")

\* The loop of _resumeSession: a done agent is skipped, any other is made
\* again under its saved id (prev.id || `agent-${this.agentCounter}`).
RECURSIVE ResumeAgents(_, _)
ResumeAgents(s, prevs) ==
  IF prevs = <<>> THEN s
  ELSE IF Head(prevs).status = "done" THEN ResumeAgents(s, Tail(prevs))
  ELSE LET id == Head(prevs).id
           s1 == [s EXCEPT !.agentCounter = @ + 1,
                           !.lastSpawn = [threw |-> FALSE, ret |-> id],
                           !.agents = Append(@, _makeAgent(s.memory, id, NoStory))]
           s2 == _setStatus(emit(s1, Event("agent:spawned", id, NoStory, "null")),
                            Len(s1.agents), "working")
       IN ResumeAgents(s2, Tail(prevs))

\* this.agentCounter = session.agentCounter || 0; ...; clearSession(repo)
_resumeSession(s, prev) ==
  [ResumeAgents([s EXCEPT !.agentCounter = prev.agentCounter], prev.agents)
     EXCEPT !.session = NoSession]

_startFresh(s) ==
  IF opts.auto
  THEN [s EXCEPT !.timers = setTimeout(@, Timer("autoSpawn", 0, START_DELAY), Len(@))]
  ELSE spawnAgent(s, NoStory, TRUE)

\* const prev = loadSession(repo); if (doResume && prev) ... else
\* { clearSession(repo); this._startFresh(...) }
resumeFound(s, doResume) ==
  IF doResume /\ s.session.found THEN _resumeSession(s, s.session)
  ELSE _startFresh([s EXCEPT !.session = NoSession])

\* this._stateTimer = null at construction; no state event so far.
NoTime == 0 - 1

ClockStart ==
  [now |-> 0, timer |-> NoTime, pending |-> {}, answered |-> {},
   lastEmit |-> NoTime, prevEmit |-> NoTime]

_emitState_throttled(c) ==
  IF c.timer # NoTime \/ (c.lastEmit # NoTime /\ (c.now - c.lastEmit) * TICK < STATE_DEBOUNCE)
  THEN c
  ELSE [c EXCEPT !.timer = c.now + STATE_DEBOUNCE \div TICK]

\* if (this._stateTimer) return; this._stateTimer = setTimeout(..., 50)
_emitState(c) ==
  IF c.timer # NoTime THEN c
  ELSE [c EXCEPT !.timer = c.now + STATE_DEBOUNCE \div TICK]

\* The timer's callback: this._stateTimer = null; this.emit("state", this.getState())
stateTimerCallback(c) ==
  [c EXCEPT !.timer = NoTime, !.pending = {}, !.answered = c.pending,
            !.prevEmit = c.lastEmit, !.lastEmit = c.now]

\* --------------------------------------------------------------- actions
\* State after init(): _startFresh schedules auto-spawn in auto mode and
\* spawns one interactive agent otherwise.  Only _autoSpawnNext reads
\* opts.maxAgents, so the interactive engine is modelled for one value of it.
EngineStart ==
  /\ opts \in {o \in [auto : BOOLEAN, maxAgents : 1..MaxAgentsOpt] :
                 o.auto \/ o.maxAgents = 1}
  /\ faults = 0
  /\ lastOp = NoOp
  /\ memOps = 0
  /\ agents = IF opts.auto THEN <<>> ELSE <<_makeAgent(EmptyMemory, 1, NoStory)>>
  /\ agentCounter = IF opts.auto THEN 0 ELSE 1
  /\ taskRetryCounts = [k \in TaskKeys |-> 0]
  /\ subtaskMap = <<>>
  /\ consolidation = [done |-> 0, calls |-> {}]
  /\ session = NoSession
  /\ stateClock = ClockStart
  /\ LibraryStart
  /\ clients = <<>>
  /\ lastSpawn = [threw |-> FALSE, ret |-> 0]
  /\ timers = IF opts.auto THEN <<Timer("autoSpawn", 0, START_DELAY)>> ELSE <<>>
  /\ scanBuffer = <<>>
  /\ scanSignal = "unscanned"
  /\ events = IF opts.auto \/ limits.log = 0 THEN <<>>
              ELSE <<Event("agent:spawned", 1, NoStory, "null"),
                     Event("agent:status", 1, "working", "null")>>

EngineInit == prd = InitialPRD /\ EngineStart

Init == limits = WideLimits /\ memory = NoMemory /\ EngineInit

\* The verification loop is followed with one auto-spawned agent at a time.
VerifyInit == limits = DeepLimits /\ memory = NoMemory /\ EngineInit /\ opts.maxAgents = 1

\* agent.pty.onData(data => ...)
OnData ==
  \E i \in DOMAIN agents, buffer \in SampleBuffers, files \in limits.files,
     size \in limits.sizes :
    /\ agents[i].alive
    /\ LET s == onData(Cur, i, size, TailWindow(stripAnsi(buffer)), files, Len(timers))
       IN /\ Cardinality(Verifiers(s.agents)) <= limits.verifiers
          /\ Becomes(s)
    /\ UNCHANGED <<faults, limits, scanBuffer, scanSignal>>

\* agent.pty.onExit(...)
OnExit ==
  \E i \in DOMAIN agents, files \in limits.files :
    /\ agents[i].alive
    /\ faults < limits.faults
    /\ faults' = faults + 1
    /\ Becomes(onExit(Cur, i, files, Len(timers)))
    /\ UNCHANGED <<limits, scanBuffer, scanSignal>>

\* POST /api/agent/:id/kill (killing a killed agent again changes nothing)
KillAgent ==
  \E i \in DOMAIN agents :
    /\ agents[i].status # "killed"
    /\ faults < limits.faults
    /\ faults' = faults + 1
    /\ Becomes(killAgent(Cur, i))
    /\ UNCHANGED <<limits, scanBuffer, scanSignal>>

\* POST /api/agent/spawn with no issue
ApiSpawn ==
  \E ok \in limits.spawns :
    /\ agentCounter < limits.agents
    /\ Becomes(spawnAgent(Cur, NoStory, ok))
    /\ UNCHANGED <<faults, limits, scanBuffer, scanSignal>>

\* setTimeout(() => { runVerification ... }, 100) fires
VerifyTimer ==
  \E t \in DOMAIN timers, passed \in limits.outcomes, files \in limits.files :
    /\ timers[t].kind = "verify"
    /\ CanFire(timers, t)
    /\ LET s == [Cur EXCEPT !.timers = RemoveAt(@, t)]
       IN Becomes(verifyCallback(s, timers[t].agent, passed, files, Len(s.timers)))
    /\ UNCHANGED <<faults, limits, scanBuffer, scanSignal>>

\* setTimeout(() => { ... this._makeAgent(newId, issue) ... }, 1500) fires
RerouteTimer ==
  \E t \in DOMAIN timers :
    /\ timers[t].kind = "reroute"
    /\ CanFire(timers, t)
    /\ agentCounter < limits.agents
    /\ \E ok \in limits.spawns :
         Becomes(rerouteCallback([Cur EXCEPT !.timers = RemoveAt(@, t)], timers[t].agent,
                                 timers[t].ctx, ok))
    /\ UNCHANGED <<faults, limits, scanBuffer, scanSignal>>

\* setTimeout(() => this._autoSpawnNext(), ...) fires
AutoSpawnTimer ==
  \E t \in DOMAIN timers :
    /\ timers[t].kind = "autoSpawn"
    /\ CanFire(timers, t)
    /\ \E ok \in limits.spawns :
         LET s == _autoSpawnNext([Cur EXCEPT !.timers = RemoveAt(@, t)], ok)
         IN /\ s.agentCounter <= limits.agents
            /\ Becomes(s)
    /\ UNCHANGED <<faults, limits, scanBuffer, scanSignal>>

Next ==
  \/ OnData
  \/ OnExit
  \/ KillAgent
  \/ ApiSpawn
  \/ VerifyTimer
  \/ RerouteTimer
  \/ AutoSpawnTimer

Spec == Init /\ [][Next]_vars

\* One interactive agent whose output buffer is kept, so that each scan of
\* the buffer and what it led to can be read off the state.  _trimBuffer
\* keeps the last BUFFER_KEEP_KB of the buffer, far more than the scanned
\* tail, so it does not change a scan.
ScanInit ==
  /\ limits = WideLimits
  /\ opts = [auto |-> FALSE, maxAgents |-> 1]
  /\ faults = 0
  /\ memory = NoMemory
  /\ lastOp = NoOp
  /\ memOps = 0
  /\ agents = <<_makeAgent(EmptyMemory, 1, NoStory)>>
  /\ agentCounter = 1
  /\ taskRetryCounts = [k \in TaskKeys |-> 0]
  /\ subtaskMap = <<>>
  /\ consolidation = [done |-> 0, calls |-> {}]
  /\ session = NoSession
  /\ stateClock = ClockStart
  /\ LibraryStart
  /\ clients = <<>>
  /\ lastSpawn = [threw |-> FALSE, ret |-> 0]
  /\ prd = InitialPRD
  /\ timers = <<>>
  /\ scanBuffer = <<>>
  /\ scanSignal = "unscanned"
  /\ events = <<>>

\* agent.pty.onData(data => ...) of agent 1, with agent.outputBuffer kept:
\* scanSignal is what the handler found, "ignored" when it returned early.
ScanOutput ==
  \E data \in ChunkSeqs(MaxDataChunks) \ {<<>>} :
    /\ agents[1].alive
    /\ Len(scanBuffer) + Len(data) <= MaxScanChunks
    /\ scanBuffer' = scanBuffer \o data
    /\ LET tail == TailWindow(stripAnsi(scanBuffer'))
       IN /\ scanSignal' = IF CanSignal(agents[1]) THEN ScanSignal(tail) ELSE "ignored"
          /\ Becomes(onData(Cur, 1, 0, tail, <<>>, Len(timers)))
    /\ UNCHANGED <<faults, limits>>

ScanNext ==
  \/ ScanOutput
  \/ VerifyTimer
  \/ KillAgent
  \/ OnExit

ScanSpec == ScanInit /\ [][ScanNext]_vars

\* The auto-mode engine left to itself while every verification fails.
VerifyFailInit == limits = FailLimits /\ memory = NoMemory /\ EngineInit /\ opts.auto

VerifyFailNext ==
  \/ OnData
  \/ VerifyTimer
  \/ RerouteTimer
  \/ AutoSpawnTimer

VerifyFailSpec == VerifyFailInit /\ [][VerifyFailNext]_vars

VerifySpec == VerifyInit /\ [][Next]_vars

\* A timeout that is due runs its callback: the 100 ms verification timer fires.
VerifyLiveSpec == VerifySpec /\ WF_vars(VerifyTimer)

\* The engine with its events and PTY writes recorded, one auto-spawned
\* agent at a time.
EventInit == limits = EventLimits /\ memory = NoMemory /\ EngineInit /\ opts.maxAgents = 1

\* Every handler but the manual spawn.
EventNext ==
  \/ OnData
  \/ OnExit
  \/ KillAgent
  \/ VerifyTimer
  \/ RerouteTimer
  \/ AutoSpawnTimer

EventSpec == EventInit /\ [][EventNext]_vars

\* The auto-spawning engine, one agent at a time, with initMemory done on a
\* fresh context directory.
LearnInit ==
  /\ limits = LearnLimits
  /\ memory = EmptyMemory
  /\ EngineInit
  /\ opts.auto
  /\ opts.maxAgents = 1

LearnNext ==
  \/ OnData
  \/ OnExit
  \/ VerifyTimer
  \/ RerouteTimer
  \/ AutoSpawnTimer

LearnSpec == LearnInit /\ [][LearnNext]_vars

\* The auto-spawning engine on a PRD whose first story has three acceptance
\* criteria, one agent at a time.
SubtaskInit ==
  /\ limits = SubtaskLimits
  /\ memory = NoMemory
  /\ prd = DecomposedPRD
  /\ EngineStart
  /\ opts.auto
  /\ opts.maxAgents = 1

SubtaskNext ==
  \/ OnData
  \/ OnExit
  \/ KillAgent
  \/ VerifyTimer
  \/ RerouteTimer
  \/ AutoSpawnTimer

SubtaskSpec == SubtaskInit /\ [][SubtaskNext]_vars

\* The interactive engine with one agent after the other: the next agent is
\* spawned by hand once no agent is working or verifying, and no agent's
\* output holds HOMER_BLOCKED.
ConsolidateInit == limits = ConsolidateLimits /\ memory = NoMemory /\ EngineInit /\ ~opts.auto

SpawnWhenIdle == ActiveAgents(agents) = {} /\ ApiSpawn

NoneBlocked == \A i \in DOMAIN agents : agents[i].status # "blocked"

UnblockedOutput == OnData /\ NoneBlocked'

ConsolidateNext ==
  \/ UnblockedOutput
  \/ OnExit
  \/ KillAgent
  \/ SpawnWhenIdle
  \/ VerifyTimer

ConsolidateSpec == ConsolidateInit /\ [][ConsolidateNext]_vars

\* One interactive agent whose output grows by large chunks.
TrimInit == limits = TrimLimits /\ memory = NoMemory /\ EngineInit /\ ~opts.auto

TrimNext ==
  \/ OnData
  \/ VerifyTimer

TrimSpec == TrimInit /\ [][TrimNext]_vars

\* The interactive engine behind the server, with websockets that come and go.
SubscribeInit == limits = SubscribeLimits /\ memory = NoMemory /\ EngineInit /\ ~opts.auto

OpenSocket ==
  /\ Len(clients) < MaxClients
  /\ Becomes([Cur EXCEPT !.clients = websocketOpen(@)])
  /\ UNCHANGED <<faults, limits, scanBuffer, scanSignal>>

CloseSocket ==
  \E k \in DOMAIN clients :
    /\ clients[k].open
    /\ Becomes([Cur EXCEPT !.clients = websocketClose(@, k)])
    /\ UNCHANGED <<faults, limits, scanBuffer, scanSignal>>

SubscribeNext ==
  \/ OpenSocket
  \/ CloseSocket
  \/ OnData
  \/ KillAgent
  \/ VerifyTimer

SubscribeSpec == SubscribeInit /\ [][SubscribeNext]_vars

\* The engine, one agent at a time in auto mode, where a child process may
\* fail to start.
SpawnFailInit == limits = SpawnFailLimits /\ memory = NoMemory /\ EngineInit /\ opts.maxAgents = 1

SpawnFailNext ==
  \/ OnData
  \/ ApiSpawn
  \/ VerifyTimer
  \/ RerouteTimer
  \/ AutoSpawnTimer

SpawnFailSpec == SpawnFailInit /\ [][SpawnFailNext]_vars

\* init() without --fresh and without --resume finds a saved session: it
\* emits session:found and returns, and the server takes commands.
ResumeInit ==
  /\ limits = ResumeLimits
  /\ opts = [auto |-> FALSE, maxAgents |-> 1]
  /\ faults = 0
  /\ memory = NoMemory
  /\ lastOp = NoOp
  /\ memOps = 0
  /\ agents = <<>>
  /\ agentCounter = 0
  /\ taskRetryCounts = [k \in TaskKeys |-> 0]
  /\ subtaskMap = <<>>
  /\ consolidation = [done |-> 0, calls |-> {}]
  /\ session \in SavedSessions
  /\ stateClock = ClockStart
  /\ LibraryStart
  /\ clients = <<>>
  /\ lastSpawn = [threw |-> FALSE, ret |-> 0]
  /\ prd = InitialPRD
  /\ timers = <<>>
  /\ scanBuffer = <<>>
  /\ scanSignal = "unscanned"
  /\ events = <<Event("session:found", 0, "null", "null")>>

\* POST /api/session/resume
ResumeFound ==
  \E doResume \in BOOLEAN :
    /\ LET s == resumeFound(Cur, doResume)
       IN /\ s.agentCounter <= limits.agents
          /\ Becomes(s)
    /\ UNCHANGED <<faults, limits, scanBuffer, scanSignal>>

ResumeNext ==
  \/ ApiSpawn
  \/ ResumeFound
  \/ KillAgent

ResumeSpec == ResumeInit /\ [][ResumeNext]_vars

\* ------------------------------------------------- the memory module alone
\* The module is used without an engine, as by src/tests/memory.test.js:
\* initMemory on a fresh directory, then calls in any order.
MemAgents == {1}

MemTasks == {"US-001"}

MemFiles == {<<>>, <<"lib/auth.js">>}

MemRuleIds == {<<>>, <<1>>}

\* No engine runs; `ops` is the number of calls made in a run.
StoreLimits(ops) ==
  [agents |-> 0, verifiers |-> 0, faults |-> 0, outcomes |-> {}, log |-> 0,
   files |-> MemFiles, ops |-> ops, tally |-> FALSE, sizes |-> {0}, spawns |-> {TRUE}]

StoreTables ==
  /\ opts = [auto |-> FALSE, maxAgents |-> 1]
  /\ agents = <<>>
  /\ agentCounter = 0
  /\ taskRetryCounts = [k \in TaskKeys |-> 0]
  /\ subtaskMap = <<>>
  /\ consolidation = [done |-> 0, calls |-> {}]
  /\ session = NoSession
  /\ stateClock = ClockStart
  /\ clients = <<>>
  /\ lastSpawn = [threw |-> FALSE, ret |-> 0]
  /\ prd = InitialPRD
  /\ timers = <<>>
  /\ faults = 0
  /\ scanBuffer = <<>>
  /\ scanSignal = "unscanned"
  /\ events = <<>>
  /\ memory = EmptyMemory
  /\ lastOp = NoOp
  /\ memOps = 0

StoreInit == StoreTables /\ LibraryStart

EngineIdle ==
  UNCHANGED <<opts, agents, agentCounter, taskRetryCounts, prd, timers, faults,
              limits, scanBuffer, scanSignal, events, subtaskMap, consolidation,
              session, lastSpawn, clients, stateClock, dag, prdFile, ready>>

Called(op, ret, mem) ==
  /\ memOps < limits.ops
  /\ memOps' = memOps + 1
  /\ memory' = mem
  /\ lastOp' = [lastOp EXCEPT !.op = op, !.ret = ret]
  /\ EngineIdle

RecordVerification ==
  \E a \in MemAgents, key \in MemTasks, passed \in BOOLEAN, files \in MemFiles,
     attempt \in 1..MaxAttemptArg :
    Called("recordVerification", <<a, key>>,
           recordVerification(memory, a, key, passed,
                              IF passed THEN <<>> ELSE <<ErrorKey>>, files, attempt))

RecordSuccess ==
  \E a \in MemAgents, key \in MemTasks, files \in MemFiles,
     verifyAttempts \in 1..MaxAttemptArg, ids \in MemRuleIds :
    Called("recordSuccess", <<a, key>>,
           recordSuccess(memory, a, key, files, verifyAttempts, ids))

RecordFailure ==
  \E a \in MemAgents, key \in MemTasks, files \in MemFiles, ids \in MemRuleIds :
    Called("recordFailure", <<a, key>>,
           recordFailure(memory, a, key, "failed", files, ids))

BuildTaskMemory ==
  \E key \in MemTasks, files \in MemFiles :
    /\ memOps < limits.ops
    /\ memOps' = memOps + 1
    /\ memory' = buildTaskMemory(memory, key, files)
    /\ lastOp' = [op |-> "buildTaskMemory", ret |-> TaskMemoryRules(memory, key, files),
                  surfaced |-> TaskMemoryRules(memory, key, files), threw |-> FALSE]
    /\ EngineIdle

BuildRerouteContext ==
  \E key \in MemTasks, files \in MemFiles :
    Called("buildRerouteContext", RerouteContextRules(memory, key, files),
           buildRerouteContext(memory, key, files))

BuildRuleHints ==
  \E files \in MemFiles : Called("buildRuleHints", <<>>, buildRuleHints(memory, files))

GetLastInjectedRuleIds ==
  Called("getLastInjectedRuleIds", getLastInjectedRuleIds(memory), memory)

MemoryInit == limits = StoreLimits(MaxMemOps) /\ StoreInit

MemoryNext ==
  \/ RecordVerification
  \/ RecordSuccess
  \/ RecordFailure

MemorySpec == MemoryInit /\ [][MemoryNext]_vars

\* ---- the error -> file relations, recordEpisode called directly ----

OtherErrorKey == [check |-> "lint", code |-> "no-unused-vars", file |-> "lib/db.js"]

RelationErrors == {<<>>, <<ErrorKey>>, <<ErrorKey, OtherErrorKey>>}

RelationFiles == {<<>>, <<"lib/auth.js">>, <<"lib/auth.js", "lib/db.js">>}

\* recordEpisode returns nothing; lastOp.ret keeps the failed checks' error keys
\* and the touched files of the call.
RecordEpisode ==
  \E a \in MemAgents, key \in MemTasks, errors \in RelationErrors, files \in RelationFiles :
    Called("recordEpisode", <<errors, files>>,
           recordEpisode(memory, a, key, 1, errors = <<>>, errors, files))

\* ---- the nine writes, called on an open and on a closed store ----

KeyedWrites == {"recordVerification", "recordSuccess"}

\* if (!db) return, and if (!db || !taskKey) return of recordVerification and
\* recordSuccess: the first statement of every write.
returnsEarly(op, mem, key) ==
  \/ ~mem.db
  \/ op \in KeyedWrites /\ key = NoStory

\* A write called from outside the engine. Past its first statement it runs
\* db.query(...), a TypeError when db is null.
StoreWrite(op, key, mem) ==
  LET threw == ~returnsEarly(op, memory, key) /\ ~memory.db
  IN /\ memOps < limits.ops
     /\ memOps' = memOps + 1
     /\ memory' = IF threw THEN memory ELSE mem
     /\ lastOp' = [lastOp EXCEPT !.op = op, !.ret = <<>>, !.threw = threw]
     /\ EngineIdle

StoreKeys == MemTasks \cup {NoStory}

WriteVerification ==
  \E a \in MemAgents, key \in StoreKeys, passed \in BOOLEAN, files \in MemFiles :
    StoreWrite("recordVerification", key,
               recordVerification(memory, a, key, passed,
                                  IF passed THEN <<>> ELSE <<ErrorKey>>, files, 1))

WriteEpisode ==
  \E a \in MemAgents, key \in MemTasks, passed \in BOOLEAN, files \in MemFiles :
    StoreWrite("recordEpisode", key,
               recordEpisode(memory, a, key, 1, passed,
                             IF passed THEN <<>> ELSE <<ErrorKey>>, files))

WriteSuccess ==
  \E a \in MemAgents, key \in StoreKeys, files \in MemFiles, ids \in MemRuleIds :
    StoreWrite("recordSuccess", key, recordSuccess(memory, a, key, files, 1, ids))

WriteFailure ==
  \E a \in MemAgents, key \in MemTasks, files \in MemFiles, ids \in MemRuleIds :
    StoreWrite("recordFailure", key, recordFailure(memory, a, key, "failed", files, ids))

StoreRule == <<"run the typecheck before committing">>

UpsertRule ==
  StoreWrite("upsertRule", NoStory, upsertRule(memory, RepoScope, StoreRule, DEFAULT_CONFIDENCE))

StoreRuleIds == 1..2

StrengthenRule ==
  \E id \in StoreRuleIds :
    StoreWrite("strengthenRule", NoStory, strengthenRule(memory, id, Tenths(1)))

WeakenRule ==
  \E id \in StoreRuleIds, amount \in {Tenths(1), Tenths(5)} :
    StoreWrite("weakenRule", NoStory, weakenRule(memory, id, amount))

FileData ==
  {[imports |-> i, exports |-> NoList, cochanges |-> c] :
     i \in {NoList, [given |-> TRUE, list |-> <<"./db.js">>]},
     c \in {NoList, [given |-> TRUE, list |-> <<"lib/db.js">>]}}

UpdateFileKnowledge ==
  \E data \in FileData :
    StoreWrite("updateFileKnowledge", NoStory,
               updateFileKnowledge(memory, "lib/auth.js", data))

Consolidate == StoreWrite("consolidate", NoStory, consolidate(memory))

CloseMemory ==
  /\ memory.db
  /\ memory' = closeMemory(memory)
  /\ lastOp' = [lastOp EXCEPT !.op = "closeMemory", !.ret = <<>>, !.threw = FALSE]
  /\ UNCHANGED memOps
  /\ EngineIdle

ClosedInit == limits = StoreLimits(MaxClosedOps) /\ StoreInit

ClosedNext ==
  \/ WriteVerification
  \/ WriteEpisode
  \/ WriteSuccess
  \/ WriteFailure
  \/ UpsertRule
  \/ StrengthenRule
  \/ WeakenRule
  \/ UpdateFileKnowledge
  \/ Consolidate
  \/ CloseMemory

ClosedSpec == ClosedInit /\ [][ClosedNext]_vars

RelationInit == limits = StoreLimits(MaxRelationOps) /\ StoreInit

RelationNext ==
  \/ RecordEpisode
  \/ RecordVerification

RelationSpec == RelationInit /\ [][RelationNext]_vars

\* ---- the writers of task_runs, for two agents and two tasks ----

RunAgents == {1, 2}

RunTasks == {"US-001", "US-002"}

\* agent.status when extractMemories is called
ExtractStatuses == {"done", "blocked", "exited", "failed"}

RunVerification ==
  \E a \in RunAgents, key \in RunTasks, passed \in BOOLEAN :
    Called("recordVerification", <<a, key>>,
           recordVerification(memory, a, key, passed,
                              IF passed THEN <<>> ELSE <<ErrorKey>>, <<>>, 1))

RunFailure ==
  \E a \in RunAgents, key \in RunTasks :
    Called("recordFailure", <<a, key>>, recordFailure(memory, a, key, "failed", <<>>, <<>>))

ExtractMemories ==
  \E a \in RunAgents, key \in RunTasks, status \in ExtractStatuses :
    Called("extractMemories", <<a, key>>,
           extractMemories(memory, [_makeAgent(memory, a, key) EXCEPT !.status = status], <<>>))

RunsInit == limits = StoreLimits(MaxRunOps) /\ StoreInit

RunsNext ==
  \/ RunVerification
  \/ RunFailure
  \/ ExtractMemories

RunsSpec == RunsInit /\ [][RunsNext]_vars

RegisterInit == limits = StoreLimits(MaxRegisterOps) /\ StoreInit

RegisterNext ==
  \/ RecordSuccess
  \/ RecordFailure
  \/ BuildTaskMemory
  \/ BuildRerouteContext
  \/ BuildRuleHints
  \/ GetLastInjectedRuleIds

RegisterSpec == RegisterInit /\ [][RegisterNext]_vars

\* The engine's state timer alone, against a clock: _emitState is called by
\* spawnAgent, setTool, _setStatus, the reroute callback, _resumeSession and
\* _startFresh, at any time.
DebounceInit == limits = StoreLimits(0) /\ StoreInit

ClockOnly ==
  UNCHANGED <<opts, agents, agentCounter, taskRetryCounts, prd, timers, faults,
              limits, scanBuffer, scanSignal, events, memory, lastOp, memOps,
              subtaskMap, consolidation, session, lastSpawn, clients, dag, prdFile, ready>>

\* Some handler calls this._emitState()
EmitState ==
  /\ stateClock' = [_emitState(stateClock) EXCEPT !.pending = @ \cup {stateClock.now}]
  /\ ClockOnly

\* The 50 ms timer fires when it is due.
StateTimer ==
  /\ stateClock.timer = stateClock.now
  /\ stateClock' = stateTimerCallback(stateClock)
  /\ ClockOnly

\* Time passes, but not past a timer that is due.
Tick ==
  /\ stateClock.now < MaxClock
  /\ stateClock.timer # stateClock.now
  /\ stateClock' = [stateClock EXCEPT !.now = @ + 1]
  /\ ClockOnly

DebounceNext ==
  \/ EmitState
  \/ StateTimer
  \/ Tick

DebounceSpec == DebounceInit /\ [][DebounceNext]_vars

\* ---- engine.js: one call of _waitForReady(agent, cb), against a clock ----
\* `fired` is the local flag, `timer` the 8 s timeout (armed or not), `start`
\* the 1.5 s timeout, `check` the time of the interval's next tick (NoTime:
\* not set, or cleared). `prompt`: the last line of agent.outputBuffer matches
\* /[>$?...]\s*$/ or names claude or aider. `calls` counts cb(), `at` is the
\* time of the last one.
_waitForReady(prompt) ==
  [pc |-> "waiting", now |-> 0, fired |-> FALSE, timer |-> TRUE, start |-> TRUE,
   check |-> NoTime, prompt |-> prompt, calls |-> 0, at |-> NoTime]

\* () => { if (!fired) { fired = true; cb(); } }
readyTimeout(rd) ==
  IF rd.fired THEN [rd EXCEPT !.timer = FALSE]
  ELSE [rd EXCEPT !.timer = FALSE, !.fired = TRUE, !.calls = @ + 1, !.at = rd.now]

readyCheck_again(rd) ==
  IF rd.prompt THEN [rd EXCEPT !.check = rd.now + READY_POLL, !.calls = @ + 1, !.at = rd.now]
  ELSE [rd EXCEPT !.check = rd.now + READY_POLL]

\* if (fired) { clearInterval(check); return; }
\* if (last.match(...) || ...) { fired = true; clearTimeout(timer); clearInterval(check); cb(); }
readyCheck(rd) ==
  IF rd.fired THEN [rd EXCEPT !.check = NoTime]
  ELSE IF rd.prompt
  THEN [rd EXCEPT !.fired = TRUE, !.timer = FALSE, !.check = NoTime,
                  !.calls = @ + 1, !.at = rd.now]
  ELSE [rd EXCEPT !.check = rd.now + READY_POLL]

\* A timeout or the interval is due now.
ReadyDue(rd) ==
  \/ rd.timer /\ rd.now = READY_MAX_WAIT
  \/ rd.start /\ rd.now = READY_MIN_WAIT
  \/ rd.check = rd.now

ReadyOnly ==
  UNCHANGED <<opts, agents, agentCounter, taskRetryCounts, prd, timers, faults,
              limits, scanBuffer, scanSignal, events, memory, lastOp, memOps,
              subtaskMap, consolidation, session, lastSpawn, clients, stateClock,
              dag, prdFile>>

\* The child prints: the last line of the buffer becomes, or stops being, a prompt.
ReadyOutput ==
  /\ ready.pc = "waiting"
  /\ ready' = [ready EXCEPT !.prompt = ~@]
  /\ ReadyOnly

\* The 8000 ms timeout fires.
ReadyTimeout ==
  /\ ready.pc = "waiting"
  /\ ready.timer /\ ready.now = READY_MAX_WAIT
  /\ ready' = readyTimeout(ready)
  /\ ReadyOnly

\* The 1500 ms timeout fires: setInterval(..., 200)
ReadyStart ==
  /\ ready.pc = "waiting"
  /\ ready.start /\ ready.now = READY_MIN_WAIT
  /\ ready' = [ready EXCEPT !.start = FALSE, !.check = ready.now + READY_POLL]
  /\ ReadyOnly

\* The interval ticks.
ReadyCheck ==
  /\ ready.pc = "waiting"
  /\ ready.check = ready.now
  /\ ready' = readyCheck(ready)
  /\ ReadyOnly

\* Time passes, but not past a timer that is due.
ReadyTick ==
  /\ ready.pc = "waiting"
  /\ ready.now < MaxReadyClock
  /\ ~ReadyDue(ready)
  /\ ready' = [ready EXCEPT !.now = @ + READY_POLL \div 2]
  /\ ReadyOnly

ReadyInit ==
  /\ limits = StoreLimits(0)
  /\ StoreTables
  /\ dag = NoCall
  /\ prdFile = NoFile
  /\ \E prompt \in BOOLEAN : ready = _waitForReady(prompt)

ReadyNext ==
  \/ ReadyOutput
  \/ ReadyTimeout
  \/ ReadyStart
  \/ ReadyCheck
  \/ ReadyTick

ReadySpec == ReadyInit /\ [][ReadyNext]_vars

\* ---- tasks.js: nextStory on any PRD ----

StoryNames == <<"US-001", "US-002", "US-003">>

\* A story of prd.json: priority is optional.
StoriesAt(k) ==
  {[id |-> StoryNames[k], passes |-> b, notes |-> <<>>, criteria |-> 1] : b \in BOOLEAN}
    \cup {[id |-> StoryNames[k], priority |-> n, passes |-> b, notes |-> <<>>, criteria |-> 1] :
             n \in 0..MaxPriority, b \in BOOLEAN}

StoryLists ==
  UNION {{p \in [1..n -> UNION {StoriesAt(k) : k \in 1..n}] : \A k \in 1..n : p[k] \in StoriesAt(k)} :
           n \in 0..MaxStories}

PrdOnly ==
  UNCHANGED <<opts, agents, agentCounter, taskRetryCounts, timers, faults, limits,
              scanBuffer, scanSignal, events, memory, memOps, subtaskMap,
              consolidation, session, lastSpawn, clients, stateClock, dag, prdFile, ready>>

\* loadPRD: the stories of the prd.json found
LoadPRD ==
  /\ lastOp.op = "none"
  /\ prd' \in StoryLists
  /\ lastOp' = [lastOp EXCEPT !.op = "loadPRD"]
  /\ PrdOnly

NextStory ==
  /\ lastOp.op = "loadPRD"
  /\ lastOp' = [lastOp EXCEPT !.op = "nextStory", !.ret = nextStory(prd)]
  /\ UNCHANGED prd
  /\ PrdOnly

StoryInit == limits = StoreLimits(0) /\ StoreInit

StoryNext ==
  \/ LoadPRD
  \/ NextStory

StorySpec == StoryInit /\ [][StoryNext]_vars

\* ---- tasks.js: prd.json on disk, its writers and a reader in another process ----

\* JSON.stringify(prd, null, 2) + "\n": the stories in order, then the newline
stringify(p) ==
  [k \in 1..(Len(p) + 1) |->
     IF k <= Len(p) THEN [story |-> p[k], newline |-> FALSE]
     ELSE [story |-> <<>>, newline |-> TRUE]]

\* writeFileSync(prdPath, text): open(prdPath, "w") empties the file; the text
\* follows in one or more write calls.
writeFileSync(file, text) ==
  [file EXCEPT !.text = <<>>, !.rest = text, !.open = TRUE, !.whole = @ \cup {text}]

savePRD(file, p) == writeFileSync(file, stringify(p))

FileOnly ==
  UNCHANGED <<opts, agents, agentCounter, taskRetryCounts, timers, faults, limits,
              scanBuffer, scanSignal, events, memory, lastOp, subtaskMap,
              consolidation, session, lastSpawn, clients, stateClock, dag, ready>>

\* A call of savePRD, markStoryPassed or markStoryFailed: JavaScript runs it to
\* its end before the next call starts.
Saving(p) ==
  /\ ~prdFile.open
  /\ memOps < limits.ops
  /\ memOps' = memOps + 1
  /\ prd' = p
  /\ prdFile' = savePRD(prdFile, p)
  /\ FileOnly

SavePRD == Saving(prd)

MarkStoryPassed ==
  \E id \in StoryIds : Saving(markStoryPassed(prd, id, <<"Completed by", 1>>))

MarkStoryFailed ==
  \E id \in StoryIds : Saving(markStoryFailed(prd, id, <<"Failed after", 1>>))

\* One write call: the kernel takes some or all of what is left.
WriteSome ==
  /\ prdFile.open
  /\ \E n \in 1..Len(prdFile.rest) :
       prdFile' = [prdFile EXCEPT !.text = @ \o SubSeq(prdFile.rest, 1, n),
                                  !.rest = SubSeq(@, n + 1, Len(@))]
  /\ UNCHANGED <<prd, memOps>>
  /\ FileOnly

CloseFile ==
  /\ prdFile.open
  /\ prdFile.rest = <<>>
  /\ prdFile' = [prdFile EXCEPT !.open = FALSE]
  /\ UNCHANGED <<prd, memOps>>
  /\ FileOnly

\* Another process (an agent working in the repository, a second loadPRD)
\* reads the file, at any time.
ReadFile ==
  /\ prdFile' = [prdFile EXCEPT !.seen = prdFile.text]
  /\ UNCHANGED <<prd, memOps>>
  /\ FileOnly

FileStart ==
  [text |-> stringify(InitialPRD), rest |-> <<>>, open |-> FALSE,
   seen |-> stringify(InitialPRD), whole |-> {stringify(InitialPRD)}]

FileInit ==
  /\ limits = StoreLimits(MaxSaves)
  /\ StoreTables
  /\ dag = NoCall
  /\ ready = NoCall
  /\ prdFile = FileStart

FileNext ==
  \/ SavePRD
  \/ MarkStoryPassed
  \/ MarkStoryFailed
  \/ WriteSome
  \/ CloseFile
  \/ ReadFile

FileSpec == FileInit /\ [][FileNext]_vars

\* ---- lib/dag.js: topoLayers, one pass of its while loop per step ----

\* getDeps: the numbers after '#' on the "depends on:" line of the body, in the
\* order written, repeats and numbers of unknown issues included.
DepLists == UNION {[1..n -> 1..MaxIssueNumber] : n \in 0..MaxDeps}

\* layer.sort((a, b) => a - b), of distinct numbers
SortedSeq(set) ==
  [k \in 1..Cardinality(set) |->
     CHOOSE n \in set : Cardinality({m \in set : m < n}) = k - 1]

\* The issues of a repository: distinct numbers, each with the list getDeps
\* reads from its body.
IssueLists ==
  UNION {{[k \in 1..Cardinality(S) |-> [number |-> SortedSeq(S)[k], deps |-> f[SortedSeq(S)[k]]]] :
            f \in [S -> DepLists]} : S \in SUBSET (1..MaxIssueNumber)}

Numbers(issues) == {issues[k].number : k \in DOMAIN issues}

DepsOf(issues, n) ==
  LET k == CHOOSE j \in DOMAIN issues : issues[j].number = n IN issues[k].deps

Count(seq, x) == Cardinality({k \in DOMAIN seq : seq[k] = x})

\* buildGraph: children.get(dep).push(issue.number) for every dep that is a node;
\* how often each issue was pushed to children.get(parent).
Children(issues, parent) ==
  [child \in Numbers(issues) |-> Count(DepsOf(issues, child), parent)]

\* deps.filter((d) => nodes.has(d)).length
InDegrees(issues) ==
  [n \in Numbers(issues) |->
     Cardinality({k \in DOMAIN DepsOf(issues, n) : DepsOf(issues, n)[k] \in Numbers(issues)})]

Released_all(deg) == 0

\* (inDegree.get(child) || 1) - 1
Released(deg) == (IF deg = 0 THEN 1 ELSE deg) - 1

\* The decrements, one after the other, of one child's in-degree.
RECURSIVE ReleasedTimes(_, _)
ReleasedTimes(deg, times) ==
  IF times = 0 THEN deg ELSE ReleasedTimes(Released(deg), times - 1)

\* How often a child is met in children.get(num), over the nums of the layer.
Releases(issues, layer, child) ==
  Cardinality({p \in (DOMAIN layer) \X (DOMAIN DepsOf(issues, child)) :
                 p[2] <= Children(issues, layer[p[1]])[child]})

\* for (const num of layer) { visited.add(num); for (const child of ...) ... }:
\* the decrements of different children do not touch each other.
ReleaseLayer(inDegree, issues, layer) ==
  [child \in DOMAIN inDegree |->
     ReleasedTimes(inDegree[child], Releases(issues, layer, child))]

Remaining_all(d) == Numbers(d.issues)

\* Circular deps: for (const num of nodes.keys()) if (!visited.has(num)) ...
Remaining(d) == Numbers(d.issues) \ d.visited

\* One pass of the while loop: the unvisited nodes of in-degree 0, or all the
\* unvisited ones if there is none; sorted, pushed, visited and released.
topoPass(d) ==
  LET zero == {n \in Numbers(d.issues) \ d.visited : d.inDegree[n] = 0}
      layer == SortedSeq(IF zero = {} THEN Remaining(d) ELSE zero)
  IN [d EXCEPT !.layers = Append(@, layer),
               !.visited = @ \cup Range(layer),
               !.inDegree = ReleaseLayer(@, d.issues, layer)]

\* buildGraph and the in-degrees, up to the while loop
topoStart(issues) ==
  [pc |-> "loop", issues |-> issues, inDegree |-> InDegrees(issues), visited |-> {},
   layers |-> <<>>]

DagOnly ==
  UNCHANGED <<opts, agents, agentCounter, taskRetryCounts, prd, timers, faults,
              limits, scanBuffer, scanSignal, events, memory, lastOp, memOps,
              subtaskMap, consolidation, session, lastSpawn, clients, stateClock, prdFile, ready>>

\* while (visited.size < nodes.size)
TopoPass ==
  /\ dag.pc = "loop"
  /\ Cardinality(dag.visited) < Cardinality(Numbers(dag.issues))
  /\ dag' = topoPass(dag)
  /\ DagOnly

TopoReturn ==
  /\ dag.pc = "loop"
  /\ ~(Cardinality(dag.visited) < Cardinality(Numbers(dag.issues)))
  /\ dag' = [dag EXCEPT !.pc = "returned"]
  /\ DagOnly

\* topoLayers is called once, with any of the issue lists.
TopoInit ==
  /\ limits = StoreLimits(0)
  /\ StoreTables
  /\ prdFile = NoFile
  /\ ready = NoCall
  /\ \E issues \in IssueLists : dag = topoStart(issues)

TopoNext ==
  \/ TopoPass
  \/ TopoReturn

TopoSpec == TopoInit /\ [][TopoNext]_vars

\* The loop is run by one synchronous call: a pass that can be taken is taken.
TopoLiveSpec == TopoSpec /\ WF_vars(TopoPass) /\ WF_vars(TopoReturn)

\* ---------------------------------------------------------------- claims
AgentsOf(ags, key) == {i \in DOMAIN ags : taskKey(ags[i]) = key}

PendingVerify(i) == \E t \in DOMAIN timers : timers[t].kind = "verify" /\ timers[t].agent = i

\* C1: at every point, each task is referenced by at most one agent whose
\* status is working or verifying.
OneActiveAgentPerTask ==
  \A key \in StoryIds : Cardinality(AgentsOf(agents, key) \cap ActiveAgents(agents)) <= 1

\* C2: once an agent has been killed while its verification is pending, the
\* verification's result is ignored: the agent stays killed, no feedback is
\* recorded for it, and its completion is not written to the story.
KilledVerificationAbandoned ==
  [][\A i \in DOMAIN agents :
       (agents[i].status = "killed" /\ PendingVerify(i)) =>
         /\ agents'[i].status = "killed"
         /\ agents'[i].verifyHistory = agents[i].verifyHistory
         /\ \A k \in DOMAIN prd :
              prd'[k].notes = <<"Completed by", agents[i].id>> => prd'[k].notes = prd[k].notes]_vars

\* C3: once an agent's status is terminal, no later event changes it.
TerminalStatusFinal ==
  [][\A i \in DOMAIN agents :
       agents[i].status \in TerminalStatuses => agents'[i].status = agents[i].status]_vars

\* A step of POST /api/agent/spawn: an agent is added and no timer has fired.
ManualSpawnStep == agentCounter' = agentCounter + 1 /\ timers' = timers

\* C4: once a task has used up its reroute budget and its agent has been set
\* to failed, neither a reroute nor auto-spawn spawns an agent for that task.
FailedTaskNeverRespawned ==
  [][\A key \in StoryIds :
       (/\ ~ManualSpawnStep
        /\ RerouteRefused(taskRetryCounts[key])
        /\ \E i \in AgentsOf(agents, key) : agents[i].status = "failed") =>
         AgentsOf(agents', key) = AgentsOf(agents, key)]_vars

\* C5: in auto mode, when every verification of a task fails, at most
\* MAX_REROUTES + 1 agents are ever spawned for that task.
\* (The task's agents have ended, if at all, by a verification failing at the cap.)
AtMostThreeAgentsPerTask ==
  \A key \in StoryIds :
    (\A i \in AgentsOf(agents, key) :
       \/ agents[i].status \in ActiveStatuses
       \/ agents[i].status \in {"rerouted", "failed"} /\ VerifyCapReached(agents[i])) =>
      Cardinality(AgentsOf(agents, key)) <= MAX_REROUTES + 1

ActiveWithinMaxAgents ==
  [][(/\ opts.auto
      /\ ~ManualSpawnStep
      /\ Cardinality(ActiveAgents(agents')) > Cardinality(ActiveAgents(agents))) =>
       Cardinality(ActiveAgents(agents')) <= opts.maxAgents]_vars

\* C8: in auto mode, once an agent is terminal, auto-spawn runs until
\* maxAgents agents are active or no task can be selected; so when no timer
\* is pending, nothing is left for auto-spawn to do.
AutoSpawnFollowsTerminal ==
  (/\ opts.auto
   /\ timers = <<>>
   /\ \E i \in DOMAIN agents : agents[i].status \in TerminalStatuses) =>
    \/ Cardinality(ActiveAgents(agents)) >= opts.maxAgents
    \/ _pickNextTask(Cur) = NoStory

\* The token that occurs first in a scanned window, "none" when it has none.
EarliestSignal(tail) ==
  LET tokens == {k \in DOMAIN tail : tail[k] \in {"done", "blocked"}}
  IN IF tokens = {} THEN "none"
     ELSE tail[CHOOSE k \in tokens : \A j \in tokens : k <= j]

\* C9: a scan of the last 500 ANSI-stripped characters acts on one signal,
\* and when HOMER_DONE and HOMER_BLOCKED both occur there, on the one that
\* occurs first.
EarliestSignalWins ==
  scanSignal \in {"done", "blocked", "none"} =>
    scanSignal = EarliestSignal(TailWindow(stripAnsi(scanBuffer)))

\* C10: output for an agent that is not working (verifying or terminal after
\* an earlier signal) triggers neither a verification nor blocking.
SignalsOnlyWhileWorking ==
  [][\A i \in DOMAIN agents :
       ~(agents[i].status = "working") =>
         /\ agents'[i].verifyAttempts = agents[i].verifyAttempts
         /\ agents'[i].status = "verifying" => agents[i].status = "verifying"
         /\ agents'[i].status = "blocked" => agents[i].status = "blocked"]_vars

\* Output holding a token has arrived for an agent that was verifying, and
\* the agent is still in its first verification.
SignalsOnlyWhileWorkingWitness ==
  /\ scanSignal = "ignored"
  /\ ScanSignal(TailWindow(stripAnsi(scanBuffer))) = "done"
  /\ scanBuffer[Len(scanBuffer)] = "blocked"
  /\ agents[1].status = "verifying"
  /\ agents[1].verifyAttempts = 1
  /\ PendingVerify(1)

\* Positions before k of the events of a type for an agent.
EarlierEvents(k, type, id) ==
  {j \in 1..(k - 1) : events[j].type = type /\ events[j].id = id}

FeedbackWrites(i) == EarlierEvents(Len(events) + 1, "pty:write", i)

\* C11: for every failing verification below MAX_VERIFY, the feedback is
\* written to the child's PTY before the agent's status returns to working:
\* a return to working is announced right after the write, and an agent has
\* had one feedback block per verification that sent it back to working.
FeedbackBeforeWorking ==
  /\ \A k \in DOMAIN events :
       (/\ events[k].type = "agent:status"
        /\ events[k].arg = "working"
        /\ events[k - 1].type # "agent:spawned") =>
         /\ events[k - 1].type = "pty:write"
         /\ events[k - 1].id = events[k].id
         /\ events[k + 1].type = "verify:result"
         /\ events[k + 1].prev = "failed"
         /\ events[k + 1].arg < MAX_VERIFY
  /\ limits.log > 0 =>
       \A i \in DOMAIN agents : Cardinality(FeedbackWrites(i)) = Len(agents[i].verifyHistory)

\* A second failed verification has sent the agent back to working.
FeedbackBeforeWorkingWitness ==
  \E i \in DOMAIN agents :
    /\ agents[i].status = "working"
    /\ agents[i].verifyAttempts = 2
    /\ Cardinality(FeedbackWrites(i)) = 2
    /\ events[Len(events)] = Event("verify:result", i, 2, "failed")

\* The status an agent had before the agent:status event at position k.
StatusBefore(k) ==
  LET earlier == EarlierEvents(k, "agent:status", events[k].id)
  IN IF earlier = {} THEN "working"
     ELSE events[CHOOSE j \in earlier : \A h \in earlier : h <= j].arg

\* C12: an agent:status event carries prev = null iff the status before the
\* transition equals the new status, and otherwise the status before.
PrevIsPreviousStatus ==
  \A k \in DOMAIN events :
    events[k].type = "agent:status" =>
      events[k].prev = IF StatusBefore(k) = events[k].arg THEN "null" ELSE StatusBefore(k)

TerminalEvent(e) ==
  e.type = "agent:status" /\ e.arg \in {"done", "failed", "rerouted", "exited", "killed"}

\* C13: agent:spawned precedes every other event of an agent, and after the
\* agent's terminal event no output or status event is emitted for it.
AgentEventsOrdered ==
  \A k \in DOMAIN events :
    /\ events[k].type # "agent:spawned" => EarlierEvents(k, "agent:spawned", events[k].id) # {}
    /\ events[k].type \in {"agent:output", "agent:status"} =>
         \A j \in 1..(k - 1) : ~(events[j].id = events[k].id /\ TerminalEvent(events[j]))

\* C14: a verify:result of the n-th attempt of an agent is preceded by the
\* n-th verify:start of that agent and by the results of no later attempt.
VerifyStartPrecedesResult ==
  \A k \in DOMAIN events :
    events[k].type = "verify:result" =>
      /\ Cardinality(EarlierEvents(k, "verify:start", events[k].id)) = events[k].arg
      /\ Cardinality(EarlierEvents(k, "verify:result", events[k].id)) = events[k].arg - 1

\* The result of an agent's second attempt has been emitted.
VerifyStartPrecedesResultWitness ==
  \E k \in DOMAIN events :
    /\ events[k].type = "verify:result"
    /\ events[k].arg = 2
    /\ events[k].prev = "passed"

\* C15: when a verification of an agent has failed with error key K and a
\* later verification of the same agent on the same task passes, then once
\* the success is recorded the solutions row of K has resolved = 1 and its
\* confidence has moved one EMA step toward 1.
SuccessResolvesSolution ==
  [][\A i \in DOMAIN agents :
       (/\ memory.db
        /\ taskKey(agents[i]) # NoStory
        /\ agents[i].verifyHistory # <<>>
        /\ agents[i].status # "done"
        /\ agents'[i].status = "done") =>
         LET k == FindSolution(memory, ErrorKey)
         IN /\ k # 0
            /\ memory'.solutions[k].resolved = 1
            /\ memory.solutions[k].resolved = 0 =>
                 memory'.solutions[k].confidence = emaSuccess(memory.solutions[k].confidence)]_vars

EpisodesOf(mem, a, key) ==
  Cardinality({k \in DOMAIN mem.episodes :
                 mem.episodes[k].agent_id = a /\ mem.episodes[k].task_key = key})

\* C16: for every (agent_id, task_key), task_runs.attempts never exceeds the
\* number of verification_episodes rows of the pair, and neither quantity
\* ever decreases, whatever memory-store operations are made.
AttemptsWithinEpisodes ==
  [][\A a \in MemAgents, key \in MemTasks :
       LET k    == latestRun(memory, a, key)
           kNew == latestRun(memory', a, key)
       IN /\ kNew # 0 => memory'.task_runs[kNew].attempts <= EpisodesOf(memory', a, key)
          /\ k # 0 => /\ kNew # 0
                      /\ memory'.task_runs[kNew].attempts >= memory.task_runs[k].attempts
          /\ EpisodesOf(memory', a, key) >= EpisodesOf(memory, a, key)]_vars

\* C17: the confidence of every repo_rules row stays strictly between 0 and
\* 1 under any sequence of recordSuccess and recordFailure calls.
RuleConfidenceOpen ==
  \A k \in DOMAIN memory.repo_rules :
    0 < memory.repo_rules[k].confidence /\ memory.repo_rules[k].confidence < SCALE

\* C18: the confidence of every solutions row stays within [0, 1] under any
\* sequence of recordVerification, recordSuccess and recordFailure calls.
SolutionConfidenceBounded ==
  \A k \in DOMAIN memory.solutions :
    0 <= memory.solutions[k].confidence /\ memory.solutions[k].confidence <= SCALE

\* recordFailure has pulled an unresolved solution down to the floor.
SolutionConfidenceBoundedWitness ==
  /\ lastOp.op = "recordFailure"
  /\ \E k \in DOMAIN memory.solutions :
       memory.solutions[k].resolved = 0 /\ memory.solutions[k].confidence = 0


\* C19: getLastInjectedRuleIds returns exactly the ids of the rules surfaced
\* by the most recent buildTaskMemory call, whatever other memory reads
\* (buildRerouteContext, buildRuleHints) have run since, and two consecutive
\* calls with no build in between return the same set.
LastInjectedIsLastTaskMemory ==
  [][lastOp'.op = "getLastInjectedRuleIds" =>
       /\ Range(lastOp'.ret) = Range(lastOp'.surfaced)
       /\ lastOp.op = "getLastInjectedRuleIds" => Range(lastOp'.ret) = Range(lastOp.ret)]_vars

\* C20: for every agent, the injectedRuleIds stored on it at spawn are
\* exactly the ids of the rules injected into that agent's own prompt: what
\* the register was filled with for one spawn is never attributed to another
\* agent.
InjectedRulesAreOwnPrompt ==
  \A i \in DOMAIN agents :
    Range(agents[i].injectedRuleIds) = Range(agents[i].promptRules)

\* C21: a decomposed parent story is marked passed in the PRD if and only if
\* every one of its sub-task ids is in the completion set; it is never marked
\* passed while some sub-task is still uncompleted.
ParentPassedIffAllSubtasksDone ==
  \A e \in DOMAIN subtaskMap :
    \A k \in DOMAIN prd :
      prd[k].id = subtaskMap[e].parentId =>
        (prd[k].passes <=>
           \A i \in DOMAIN subtaskMap[e].subtasks :
             subtaskMap[e].subtasks[i] \in subtaskMap[e].completed)

\* The third sub-task has passed and the parent is marked.
ParentPassedIffAllSubtasksDoneWitness ==
  \E e \in DOMAIN subtaskMap :
    /\ \A i \in DOMAIN subtaskMap[e].subtasks :
         subtaskMap[e].subtasks[i] \in subtaskMap[e].completed
    /\ \E k \in DOMAIN prd : prd[k].id = subtaskMap[e].parentId /\ prd[k].passes
    /\ \E i \in DOMAIN agents : agents[i].story = SubtaskNames[3] /\ agents[i].status = "done"

\* C22: consolidate is called at the 10th, 20th, ... run of _finalizeDone (an
\* agent's transition to done) and at no other, whatever happened to the
\* agents that were done before.
ConsolidateAtEveryTenthDone ==
  consolidation.calls = {n \in 1..consolidation.done : n % CONSOLIDATE_EVERY = 0}

\* C23: agent:spawned is emitted once per agent id, and no two agent records
\* have the same id, whether made by spawnAgent, by a reroute or by a resume.
SpawnedOncePerAgentId ==
  /\ \A a, b \in DOMAIN events :
       (/\ events[a].type = "agent:spawned"
        /\ events[b].type = "agent:spawned"
        /\ events[a].id = events[b].id) => a = b
  /\ \A i, j \in DOMAIN agents : agents[i].id = agents[j].id => i = j

\* C24: once a chunk of output has been handled, the agent's output buffer is
\* at most BUFFER_TRIM_KB KiB long, whatever the sizes of the chunks and
\* whatever the agent's verify history.
BufferWithinTrimAt ==
  \A i \in DOMAIN agents : agents[i].outputLen <= BUFFER_TRIM_KB * KB

\* A buffer that was cut down while the agent had a verify history.
BufferWithinTrimAtWitness ==
  \E i \in DOMAIN agents :
    /\ agents[i].snippets # <<>>
    /\ agents[i].outputLen = HistLen(agents[i].snippets) + 1 + BUFFER_KEEP_KB * KB

SpawnFailureAddsNoAgent ==
  [][(lastSpawn'.threw /\ agentCounter' # agentCounter) =>
       (/\ agents' = agents
        /\ lastSpawn'.ret = 0
        /\ Len(events') = Len(events) + 1
        /\ events'[Len(events')].type = "error")]_vars

\* The replacement for a rerouted agent has just failed to start.
SpawnFailureAddsNoAgentWitness ==
  /\ lastSpawn.threw
  /\ events # <<>> /\ events[Len(events)].type = "error"
  /\ Len(agents) < agentCounter
  /\ \E i \in DOMAIN agents : agents[i].status = "rerouted"
  /\ \A t \in DOMAIN timers : timers[t].kind # "reroute"

\* The rows of the rules `ids` hold the Laplace rate of their own counters.
LaplaceRows(mem, ids) ==
  \A k \in DOMAIN mem.repo_rules :
    (\E j \in DOMAIN ids : ids[j] = mem.repo_rules[k].id) =>
      mem.repo_rules[k].confidence =
        ((mem.repo_rules[k].hits + 1) * SCALE) \div
          (mem.repo_rules[k].hits + mem.repo_rules[k].misses + 2)

\* C28: right after the UPDATE of recordSuccess or recordFailure on an
\* injected rule, the rule's confidence is (hits+1)/(hits+misses+2) for the
\* hits and misses the row then has.
RuleUpdateIsLaplace ==
  memory.db =>
    \A a \in MemAgents, key \in MemTasks, files \in MemFiles,
       verifyAttempts \in 1..MaxAttemptArg, ids \in MemRuleIds :
      /\ LaplaceRows(HitRules(SuccessRuns(memory, a, key, verifyAttempts), ids), ids)
      /\ LaplaceRows(MissRules(FailureRuns(memory, a, key, "failed", files), ids), ids)

\* A rule that has been injected into a success and into a failure, as the
\* failure's update left it.
RuleUpdateIsLaplaceWitness ==
  /\ lastOp.op = "recordFailure"
  /\ \E k \in DOMAIN memory.repo_rules :
       /\ memory.repo_rules[k].hits >= 1
       /\ memory.repo_rules[k].misses >= 1
       /\ LaplaceRows(memory, <<memory.repo_rules[k].id>>)

SameRelation(r1, r2) ==
  /\ r1.error_key = r2.error_key
  /\ r1.file_path = r2.file_path
  /\ r1.relation = r2.relation

InSeq(x, seq) == \E k \in DOMAIN seq : seq[k] = x

\* C29: error_file_relations never holds two rows with the same (error_key,
\* file_path, relation); no call removes a row or lowers its occurrences; and a
\* recordEpisode call whose failed check and touched file already have a row adds
\* one to that row's occurrences and inserts no row for the pair.
RelationRowsUniqueAndCounted ==
  [][LET old == memory.error_file_relations
         new == memory'.error_file_relations
     IN /\ \A j, k \in DOMAIN new : SameRelation(new[j], new[k]) => j = k
        /\ \A k \in DOMAIN old :
             /\ k \in DOMAIN new
             /\ SameRelation(old[k], new[k])
             /\ new[k].occurrences >= old[k].occurrences
             /\ (/\ lastOp'.op = "recordEpisode"
                 /\ memOps' = memOps + 1
                 /\ InSeq(old[k].error_key, lastOp'.ret[1])
                 /\ InSeq(old[k].file_path, lastOp'.ret[2]))
                => new[k].occurrences = old[k].occurrences + 1]_vars

RelationRowsUniqueAndCountedWitness ==
  /\ Len(memory.error_file_relations) >= 2
  /\ \E k \in DOMAIN memory.error_file_relations :
       memory.error_file_relations[k].occurrences >= 2

Writes ==
  {"recordVerification", "recordEpisode", "recordSuccess", "recordFailure", "upsertRule",
   "strengthenRule", "weakenRule", "updateFileKnowledge", "consolidate"}

\* C30: a write called while the store is closed returns without throwing and
\* leaves every table, and the closed handle, as they were.
ClosedStoreWritesAreNoOps ==
  [][(~memory.db /\ lastOp'.op \in Writes /\ memOps' = memOps + 1)
       => memory' = memory /\ ~lastOp'.threw]_vars

ClosedStoreWritesAreNoOpsWitness ==
  /\ ~memory.db
  /\ lastOp.op = "weakenRule"
  /\ memory.repo_rules # <<>>
  /\ memory.task_runs # <<>>

\* The nodes a node depends on, directly or through others, in at most k steps.
RECURSIVE DependsOnWithin(_, _, _)
DependsOnWithin(issues, n, k) ==
  IF k = 0 THEN {}
  ELSE LET direct == Range(DepsOf(issues, n)) \cap Numbers(issues)
       IN direct \cup UNION {DependsOnWithin(issues, m, k - 1) : m \in direct}

Acyclic(issues) ==
  \A n \in Numbers(issues) : n \notin DependsOnWithin(issues, n, Len(issues))

LayersOf(d, n) == {l \in DOMAIN d.layers : \E k \in DOMAIN d.layers[l] : d.layers[l][k] = n}

Partitioned(d) ==
  /\ \A n \in Numbers(d.issues) :
       /\ Cardinality(LayersOf(d, n)) = 1
       /\ \A l \in LayersOf(d, n) : Count(d.layers[l], n) = 1
  /\ \A l \in DOMAIN d.layers : Range(d.layers[l]) \subseteq Numbers(d.issues)

\* C31: when topoLayers has returned for issues whose dependencies have no cycle,
\* every issue number is in exactly one layer, once, and every issue lies in a
\* strictly later layer than each issue of the set it depends on.
AcyclicLayersPartitionForward ==
  (dag.pc = "returned" /\ Acyclic(dag.issues)) =>
    /\ Partitioned(dag)
    /\ \A n \in Numbers(dag.issues) :
         \A m \in Range(DepsOf(dag.issues, n)) \cap Numbers(dag.issues) :
           \A ln \in LayersOf(dag, n), lm \in LayersOf(dag, m) : lm < ln

AcyclicLayersPartitionForwardWitness ==
  /\ dag.pc = "returned"
  /\ Acyclic(dag.issues)
  /\ Len(dag.layers) = 3
  /\ \E k \in DOMAIN dag.issues :
       /\ Len(dag.issues[k].deps) = 2
       /\ Range(dag.issues[k].deps) \subseteq Numbers(dag.issues)

\* The priority a story states, 99 if it states none.
StatedPriority(story) ==
  IF "priority" \in DOMAIN story THEN story.priority ELSE DEFAULT_PRIORITY

\* C32: nextStory returns null exactly when every story has passed, and otherwise
\* a story that has not passed, of the least stated priority (99 if none is
\* stated), the earliest of the PRD among those.
NextStoryIsLeastPriority ==
  lastOp.op = "nextStory" =>
    LET incomplete == {k \in DOMAIN prd : ~prd[k].passes}
    IN /\ lastOp.ret = 0 <=> incomplete = {}
       /\ lastOp.ret # 0 =>
            /\ lastOp.ret \in incomplete
            /\ \A j \in incomplete :
                 \/ StatedPriority(prd[lastOp.ret]) < StatedPriority(prd[j])
                 \/ /\ StatedPriority(prd[lastOp.ret]) = StatedPriority(prd[j])
                    /\ lastOp.ret <= j

\* C33: whatever a reader of prd.json reads is one of the texts savePRD was
\* given in whole (or the text the file held at the start): never part of one.
ReaderSeesWholeFile == prdFile.seen \in prdFile.whole

\* C34: an agent that is verifying is, at some later time, no longer verifying.
VerifyingEnds ==
  \A i \in 1..DeepAgentCounter :
    (i \in DOMAIN agents /\ agents[i].status = "verifying")
      ~> (i \in DOMAIN agents /\ agents[i].status # "verifying")

\* C35: an agent whose child process has exited is not in status working.
ExitedNeverWorking ==
  \A i \in DOMAIN agents : ~agents[i].alive => agents[i].status # "working"

\* The output that arrives in a step: what the kept buffer has gained.
NewOutput == SubSeq(scanBuffer', Len(scanBuffer) + 1, Len(scanBuffer'))

\* C36: every verification attempt of the agent starts on a data event whose
\* own text holds HOMER_DONE; a HOMER_DONE that is already in the buffer
\* starts no further attempt when other output arrives.
FreshDoneStartsVerification ==
  [][agents'[1].verifyAttempts > agents[1].verifyAttempts
       => Includes(stripAnsi(NewOutput), "done")]_vars

\* The task key of the agent with this id, NoStory when there is none.
KeyOfAgent(id) ==
  IF \E i \in DOMAIN agents : agents[i].id = id
  THEN taskKey(agents[CHOOSE i \in DOMAIN agents : agents[i].id = id])
  ELSE NoStory

\* The agent:rerouted events whose old agent had the task key `key`.
ReroutedEvents(key) ==
  {e \in DOMAIN events : events[e].type = "agent:rerouted" /\ KeyOfAgent(events[e].id) = key}

\* A respawn delay of the task is still running.
RespawnPending(key) ==
  \E t \in DOMAIN timers :
    timers[t].kind = "reroute" /\ taskKey(agents[timers[t].agent]) = key

\* C37: once no respawn delay of a task is running, the task has as many
\* agent:rerouted events as its reroute counter says, and each of them names
\* a new agent with the old agent's task key.
ReroutedEventsMatchCounter ==
  \A key \in TaskKeys \ {NoStory} :
    /\ ~RespawnPending(key) => Cardinality(ReroutedEvents(key)) = taskRetryCounts[key]
    /\ \A e \in ReroutedEvents(key) : KeyOfAgent(events[e].arg) = key

\* C38: task_runs holds at most one row for a pair of agent id and task key.
OneRunPerAgentAndTask ==
  \A j, k \in DOMAIN memory.task_runs :
    (/\ memory.task_runs[j].agent_id = memory.task_runs[k].agent_id
     /\ memory.task_runs[j].task_key = memory.task_runs[k].task_key) => j = k

\* recordVerification, recordFailure and extractMemories have all been called
\* for one pair: its row counts one attempt, is failed, and is the only row.
OneRunPerAgentAndTaskWitness ==
  /\ lastOp.op = "extractMemories"
  /\ Len(memory.task_runs) = 1
  /\ <<memory.task_runs[1].agent_id, memory.task_runs[1].task_key>> = lastOp.ret
  /\ memory.task_runs[1].attempts = 1
  /\ memory.task_runs[1].outcome = "failed"

TopoLayersTerminates ==
  (dag.pc = "loop") ~> (dag.pc = "returned" /\ Partitioned(dag))

TopoLayersTerminatesWitness ==
  /\ dag.pc = "returned"
  /\ ~Acyclic(dag.issues)
  /\ Len(dag.layers) >= 2
  /\ \E k \in DOMAIN dag.issues : dag.issues[k].number \in Range(dag.issues[k].deps)
  /\ \E n \in Numbers(dag.issues) : n \notin Range(DepsOf(dag.issues, n))
                                     /\ n \in DependsOnWithin(dag.issues, n, Len(dag.issues))

====
